---- MODULE Spec2Model ----
(***************************************************************************)
(* WorkflowIQ: the session manager and the authenticated-request wrapper   *)
(* of src/src/auth.js, summarizeAll of src/src/analyzer.js, and the         *)
(* POST /api/analyze handler of src/server.js.                              *)
(*                                                                          *)
(* AuthSpec      : one caller at a time runs getSession(), forceRefresh()   *)
(*                 or authenticatedRequest(fn) against the session file,    *)
(*                 the login endpoint and an arbitrary operation fn.        *)
(* ServerSpec    : two route handlers in flight, each running               *)
(*                 authenticatedRequest, interleaved at their awaits.       *)
(* FetchSpec     : the fetch loop over a work list of N cases, every        *)
(*                 getCaseHTML call ending in success or in a thrown error. *)
(* FetchLiveSpec : the same loop over the short lists, every await          *)
(*                 settling.                                                *)
(* SummarizeSpec : summarizeAll called on the same cases, over the          *)
(*                 summaries cache file.                                    *)
(* AnalyzeSpec   : the analyze handler from the search result to its last   *)
(*                 message, getCaseHTML ending in success or in an error.   *)
(* BatchSpec     : the analyze handler for one case, every getCaseHTML      *)
(*                 call running authenticatedRequest.                       *)
(* SearchSpec    : the paginated search of the analyze handler, page by     *)
(*                 page, with the retry without filters and the trimming.   *)
(* DownloadSpec  : downloadMultipleCases of src/download.js over an output  *)
(*                 directory.                                               *)
(* ChatSpec      : the module state of src/server.js under two analyze      *)
(*                 runs and two chat requests interleaved at their awaits.  *)
(***************************************************************************)
EXTENDS Integers, Sequences, FiniteSets, TLC

VARIABLES
    \* ---- src/src/auth.js ----
    now,          \* Date.now(), in ms
    creds,        \* CENTAX_EMAIL and CENTAX_PASSWORD are both set
    sessionFile,  \* content of SESSION_FILE
    pc,           \* position of the running call
    op,           \* the exported function the caller invoked
    stage,        \* authenticatedRequest: "getSession" or "forceRefresh" is running
    session,      \* the local `session` of login / getSession / authenticatedRequest
    outcome,      \* what the call handed to its caller
    trace,        \* what the running call has done so far, in order
    fnErrs,       \* the errors fn has thrown in the running call, in order
    startFile,    \* content of SESSION_FILE when the call started
    startNow,     \* Date.now() when getSession read the session file
    nextTok,      \* serial of the next token the login endpoint issues
    opsLeft,      \* calls the caller may still start
    \* ---- src/server.js, POST /api/analyze, fetch loop ----
    fpc,             \* position in the fetch loop
    N,               \* cases.length
    i,               \* loop index
    success,         \* let success
    retries,         \* let retries
    consecutiveFails,\* let consecutiveFails
    nCaseTexts,      \* caseTexts.length
    skippedCount,    \* const skippedCount (-1 before it is computed)
    itemErrs,        \* messages of the errors getCaseHTML threw for cases[i]
    itemWaits,       \* the setTimeout waits (ms) awaited since cases[i] was started
    skipRun,         \* items skipped in a row since the last success or 30 s cooldown
    onlyRate,        \* every getCaseHTML call so far threw a rate-limit-classified error
    nBase,           \* 800 ms waits awaited so far
    nPeriodic,       \* 15 s waits awaited so far
    nFailCool,       \* 30 s waits awaited so far
    \* ---- callers of src/src/auth.js ----
    refreshedTok,    \* token of the last successful forceRefresh of the batch (0: none)
    parked,          \* the other in-flight request: its locals while it awaits
    \* ---- src/src/analyzer.js, summarizeAll ----
    spc,             \* position in summarizeAll
    sumCases,        \* the argument `cases`: the ids, in order
    summariesFile,   \* content of SUMMARIES_FILE
    cached,          \* const cached: id -> summary
    uncached,        \* const uncached: the ids, in order
    bi,              \* the loop index i of summarizeAll
    sumResult,       \* what summarizeAll handed to its caller
    sumRun,          \* serial of the running summarizeAll call (0: none yet)
    sumCalls,        \* summarizeCase calls of the running summarizeAll call
    sumWrites,       \* saveSummaries calls of the running summarizeAll call
    sumWaits,        \* 200 ms waits of the running summarizeAll call
    sumFailed,       \* ids whose summarizeCase promise rejected in the running call
    loadedFile,      \* content of SUMMARIES_FILE when the running call loaded it
    prevClean,       \* the call before returned and none of its summarizations failed
    \* ---- src/server.js, POST /api/analyze ----
    apc,             \* position in the handler
    hasFilters,      \* const hasFilters
    count,           \* req.body.count
    found,           \* searchData.results: the ids, in order
    cases,           \* let cases: the ids, in order
    caseTexts,       \* const caseTexts: the ids, in order
    sent,            \* the messages written to the response, in order
    rankResult,      \* how await rankByRelevance(...) ended
    cachedSummaries, \* let cachedSummaries
    analyzedCases,   \* let analyzedCases: the ids, in order
    \* ---- src/server.js fetch loop over src/src/auth.js, per item ----
    itemFetches,     \* fn calls (remote fetch requests) made for cases[i]
    itemRelogins,    \* forceRefresh calls made for cases[i]
    itemAll409,      \* every fetch request for cases[i] was answered 409
    \* ---- src/server.js, POST /api/analyze, doSearch ----
    pass,            \* the running search pass: 1 filtered, 2 without filters (0: none)
    page,            \* let p
    tc,              \* let tc
    avail,           \* cases the remote has for the search of the running pass
    searchLog,       \* the searchCases calls made so far, in order
    searchWaits,     \* 300 ms waits awaited so far
    \* ---- src/download.js (src/unnamed/part_004) ----
    dpc,             \* position in downloadMultipleCases / downloadCase
    dlCases,         \* the argument `cases`: the case ids, in order
    di,              \* the loop index i of downloadMultipleCases
    dir,             \* the files of outputDir: name -> bytes written (0: empty)
    dlResult,        \* what the running downloadCase call returned
    dlReqs,          \* network requests of the running downloadCase call
    dlBefore,        \* the files of outputDir when the running call started
    results,         \* const results
    dlLog,           \* per finished downloadCase call: what it did
    downloadedCount, \* let downloadedCount
    skippedDownloads,\* let skippedCount of downloadMultipleCases
    failCount,       \* let failCount
    \* ---- src/server.js, module state and POST /api/chat/message ----
    chatHistory,     \* let chatHistory: the messages, each with the request it came from
    summariesRun,    \* the analyze run that assigned cachedSummaries (0: none)
    runPc,           \* position of each analyze run in flight
    chatPc,          \* position of each chat request
    chatLog,         \* per chat request: what it saw and how it was answered
    llmCalls         \* chat(...) calls made by the chat endpoint

authVars == <<now, creds, sessionFile, pc, op, stage, session, outcome, trace,
              fnErrs, startFile, startNow, nextTok, opsLeft>>
fetchVars == <<fpc, N, i, success, retries, consecutiveFails, nCaseTexts,
               skippedCount, itemErrs, itemWaits, skipRun, onlyRate, nBase,
               nPeriodic, nFailCool>>
sumVars == <<spc, sumCases, summariesFile, cached, uncached, bi, sumResult, sumRun,
             sumCalls, sumWrites, sumWaits, sumFailed, loadedFile, prevClean>>
anaVars == <<apc, hasFilters, count, found, cases, caseTexts, sent, rankResult,
             cachedSummaries, analyzedCases>>
itemVars == <<itemFetches, itemRelogins, itemAll409>>
searchVars == <<pass, page, tc, avail, searchLog, searchWaits>>
dlVars == <<dpc, dlCases, di, dir, dlResult, dlReqs, dlBefore, results, dlLog,
            downloadedCount, skippedDownloads, failCount>>
chatVars == <<chatHistory, summariesRun, runPc, chatPc, chatLog, llmCalls>>
extVars == <<itemVars, searchVars, dlVars, chatVars>>
runVars == <<refreshedTok, parked, sumVars, anaVars, extVars>>
vars == <<authVars, fetchVars, runVars>>

----------------------------------------------------------------------------
(* Bounds of the model *)

\* calls of the exported functions in one behaviour
MaxOps == 2
\* clock ticks in one behaviour
MaxTicks == 3
\* largest short work list
MaxShortList == 7
\* work lists longer than the periodic-cooldown interval: 30 .. 30 + MaxBeyond
MaxBeyond == 1
\* largest list of cases handed to summarizeAll on its own
MaxCases == 6
\* summarizeAll calls in one behaviour
MaxRuns == 2
\* distinct case ids the search may answer with
MaxIds == 2
\* longest accumulated search result, and largest req.body.count
MaxFound == 3
\* largest req.body.count of a paginated search
MaxTarget == 45
\* most cases the remote has for one search
MaxAvail == 46
\* longest list given to downloadMultipleCases
MaxDownloads == 3
\* analyze requests in one behaviour of the server
MaxAnalyzeRuns == 2
\* chat requests in one behaviour of the server
MaxChats == 2

----------------------------------------------------------------------------
(* src/src/auth.js *)

\* 5 * 60 * 1000
MarginMs == 300000

NoSession == [kind |-> "none", tok |-> 0, dec |-> FALSE, exp |-> 0]
\* a session file that fs.readFile or JSON.parse rejects
Unreadable == [kind |-> "garbage", tok |-> 0, dec |-> FALSE, exp |-> 0]

\* a session whose token is a JWT with payload.exp = e (seconds)
Jwt(t, e) == [kind |-> "session", tok |-> t, dec |-> TRUE, exp |-> e]
\* a session whose token does not decode (no second segment, no JSON)
Opaque(t) == [kind |-> "session", tok |-> t, dec |-> FALSE, exp |-> 0]

\* expiries (seconds) around now + 5 min; 0 is a payload without a truthy exp
ExpChoices == {0} \cup {(MarginMs \div 1000) + k : k \in 0..((MaxTicks + 1) \div 2)}

NoErr == [origin |-> "none", status |-> 0]
Err(o, s) == [origin |-> o, status |-> s]

NoOutcome == [kind |-> "none", session |-> NoSession, val |-> 0, err |-> NoErr]
Returned(s, v) == [kind |-> "return", session |-> s, val |-> v, err |-> NoErr]
Thrown(e) == [kind |-> "throw", session |-> NoSession, val |-> 0, err |-> e]

Ev(e, a) == [ev |-> e, arg |-> a]

\* an object without keys
NoEntries == [x \in {} |-> 0]
\* SUMMARIES_FILE holding JSON.stringify(entries)
Summaries(entries) == [readable |-> TRUE, entries |-> entries]
\* SUMMARIES_FILE missing
NoSummaries == Summaries(NoEntries)
\* a SUMMARIES_FILE that fs.readFileSync or JSON.parse rejects
BadSummaries == [readable |-> FALSE, entries |-> NoEntries]

NoResult == [kind |-> "none", value |-> NoEntries]

\* an output directory without files
NoFiles == [f \in {} |-> 0]
\* no downloadCase call has returned
NoDownload == [success |-> FALSE, skipped |-> FALSE, id |-> <<>>]
\* a message of chatHistory: its role, and the analyze run (kind "analysis")
\* or the chat request (kind "chat") that pushed it
Turn(role, kind, of) == [role |-> role, kind |-> kind, of |-> of]
\* chatHistory = []; chatHistory.push({ role: 'user', content: context... });
\* chatHistory.push({ role: 'assistant', content: JSON.stringify(rankResult) })
AnalysisTurns(r) == <<Turn("user", "analysis", r), Turn("assistant", "analysis", r)>>
\* chatHistory.push({ role: 'user', content: message });
\* chatHistory.push({ role: 'assistant', content: response })
ChatTurns(c) == <<Turn("user", "chat", c), Turn("assistant", "chat", c)>>
\* a chat request that has not been made
NoChat == [message |-> FALSE, sawNull |-> FALSE, answer |-> "none", called |-> FALSE,
           pushed |-> FALSE]

\* let cachedSummaries = null
Null == [null |-> TRUE, entries |-> NoEntries]

\* the locals of a request handler that is not calling auth.js
NoRequest == [pc |-> "idle", op |-> "none", stage |-> "none", session |-> NoSession,
              outcome |-> NoOutcome, trace |-> <<>>, fnErrs |-> <<>>,
              startFile |-> NoSession, startNow |-> 0]

\* HTTP statuses fn may fail with; 0 is an error without err.response
FnStatuses == {0, 401, 403, 409, 500}

\* the margin test with >= for >
isTokenFresh_inclusive(token, t) ==
    /\ token.dec
    /\ token.exp # 0
    /\ token.exp * 1000 >= t + MarginMs

\* payload.exp truthy and payload.exp * 1000 > Date.now() + 5 * 60 * 1000;
\* a token that does not decode is not fresh
isTokenFresh(token, t) ==
    /\ token.dec
    /\ token.exp # 0
    /\ token.exp * 1000 > t + MarginMs

\* every HTTP error status taken for an authorization failure
IsAuthStatus_any4xx5xx(status) == status >= 400

\* 409 not taken for an authorization failure
IsAuthStatus_no409(status) == status \in {401, 403}

\* status === 401 || status === 403 || status === 409
IsAuthStatus(status) == status \in {401, 403, 409}

AuthInit ==
    /\ now = 0
    /\ creds \in BOOLEAN
    /\ sessionFile \in {NoSession, Unreadable, Opaque(0)} \cup {Jwt(0, e) : e \in ExpChoices}
    /\ pc = "idle"
    /\ op = "none"
    /\ stage = "none"
    /\ session = NoSession
    /\ outcome = NoOutcome
    /\ trace = <<>>
    /\ fnErrs = <<>>
    /\ startFile = NoSession
    /\ startNow = 0
    /\ nextTok = 1
    /\ opsLeft = MaxOps
    \* the analyze handler is not running
    /\ fpc = "off"
    /\ N = 0
    /\ i = 0
    /\ success = FALSE
    /\ retries = 0
    /\ consecutiveFails = 0
    /\ nCaseTexts = 0
    /\ skippedCount = -1
    /\ itemErrs = <<>>
    /\ itemWaits = <<>>
    /\ skipRun = 0
    /\ onlyRate = TRUE
    /\ nBase = 0
    /\ nPeriodic = 0
    /\ nFailCool = 0
    /\ refreshedTok = 0
    /\ parked = NoRequest
    /\ itemFetches = 0
    /\ itemRelogins = 0
    /\ itemAll409 = TRUE
    /\ dpc = "off"
    /\ dlCases = <<>>
    /\ di = 0
    /\ dir = NoFiles
    /\ dlResult = NoDownload
    /\ dlReqs = 0
    /\ dlBefore = NoFiles
    /\ results = <<>>
    /\ dlLog = <<>>
    /\ downloadedCount = 0
    /\ skippedDownloads = 0
    /\ failCount = 0
    /\ chatHistory = <<>>
    /\ summariesRun = 0
    /\ runPc = [r \in 1..MaxAnalyzeRuns |-> "idle"]
    /\ chatPc = [c \in 1..MaxChats |-> "idle"]
    /\ chatLog = [c \in 1..MaxChats |-> NoChat]
    /\ llmCalls = 0
    /\ pass = 0
    /\ page = 0
    /\ tc = 0
    /\ avail = 0
    /\ searchLog = <<>>
    /\ searchWaits = 0
    /\ spc = "off"
    /\ sumCases = <<>>
    /\ summariesFile = NoSummaries
    /\ cached = NoEntries
    /\ uncached = <<>>
    /\ bi = 0
    /\ sumResult = NoResult
    /\ sumRun = 0
    /\ sumCalls = 0
    /\ sumWrites = 0
    /\ sumWaits = 0
    /\ sumFailed = {}
    /\ loadedFile = NoSummaries
    /\ prevClean = FALSE
    /\ apc = "off"
    /\ hasFilters = FALSE
    /\ count = 0
    /\ found = <<>>
    /\ cases = <<>>
    /\ caseTexts = <<>>
    /\ sent = <<>>
    /\ rankResult = "none"
    /\ cachedSummaries = Null
    /\ analyzedCases = <<>>

\* the clock advances by half a second between any two steps
Tick ==
    /\ now < MaxTicks * 500
    /\ now' = now + 500
    /\ UNCHANGED <<creds, sessionFile, pc, op, stage, session, outcome, trace,
                   fnErrs, startFile, startNow, nextTok, opsLeft>>
    /\ UNCHANGED fetchVars
    /\ UNCHANGED runVars

\* the exported functions a caller may invoke
Exported == {"getSession", "forceRefresh", "authenticatedRequest"}

\* where the body of f starts: authenticatedRequest starts with getSession()
Entry(f) == IF f = "forceRefresh" THEN "forceRefresh" ELSE "getSession"

\* the call that just ended ran forceRefresh() and its login() returned: the
\* token that login obtained is the last one the endpoint issued
RefreshSucceeded ==
    \E k \in 1..Len(trace) :
        /\ trace[k] = Ev("forceRefresh", 0)
        /\ \E m \in (k + 1)..Len(trace) : trace[m] = Ev("writeFile", 0)
        /\ ~(outcome.kind = "throw" /\ outcome.err.origin = "writeFile")

\* a caller invokes one of the exported functions
Call ==
    /\ pc \in {"idle", "done"}
    /\ opsLeft > 0
    /\ \E f \in Exported :
         /\ op' = f
         /\ stage' = Entry(f)
         /\ pc' = Entry(f)
    /\ opsLeft' = opsLeft - 1
    /\ session' = NoSession
    /\ outcome' = NoOutcome
    /\ trace' = <<>>
    /\ fnErrs' = <<>>
    /\ startFile' = sessionFile
    /\ startNow' = now
    /\ refreshedTok' = IF RefreshSucceeded THEN nextTok - 1 ELSE refreshedTok
    /\ UNCHANGED <<now, creds, sessionFile, nextTok>>
    /\ UNCHANGED fetchVars
    /\ UNCHANGED <<parked, sumVars, anaVars, extVars>>

\* the call ends: a value or an error reaches the caller
Finish(o) ==
    /\ pc' = "done"
    /\ outcome' = o

\* the session read when the call started is captured once: the retry gets it
Deliver_captured(s) ==
    IF op = "authenticatedRequest"
    THEN /\ pc' = IF stage = "getSession" THEN "fn1" ELSE "fn2"
         /\ session' = IF stage = "getSession" THEN s ELSE startFile
         /\ UNCHANGED outcome
    ELSE /\ Finish(Returned(s, 0))
         /\ session' = s

\* where the value of getSession() / forceRefresh() goes
Deliver(s) ==
    IF op = "authenticatedRequest"
    THEN /\ pc' = IF stage = "getSession" THEN "fn1" ELSE "fn2"
         /\ session' = s
         /\ UNCHANGED outcome
    ELSE /\ Finish(Returned(s, 0))
         /\ session' = s

\* getSession: read and parse the file, test the token, return it or log in
getSession_read ==
    /\ pc = "getSession"
    /\ startNow' = now
    /\ IF sessionFile.kind = "session" /\ isTokenFresh(sessionFile, now)
       THEN /\ Deliver(sessionFile)
            /\ trace' = Append(trace, Ev("readFile", 0))
       ELSE /\ pc' = "login"
            /\ trace' = Append(trace, Ev("readFile", 0))
            /\ UNCHANGED <<session, outcome>>
    /\ UNCHANGED <<now, creds, sessionFile, op, stage, fnErrs, startFile, nextTok, opsLeft>>
    /\ UNCHANGED fetchVars
    /\ UNCHANGED runVars

\* forceRefresh without the unlink
forceRefresh_unlink_keep ==
    /\ pc = "forceRefresh"
    /\ pc' = "login"
    /\ trace' = Append(trace, Ev("forceRefresh", 0))
    /\ UNCHANGED <<now, creds, sessionFile, op, stage, session, outcome, fnErrs,
                   startFile, startNow, nextTok, opsLeft>>
    /\ UNCHANGED fetchVars
    /\ UNCHANGED runVars

\* forceRefresh: unlink the file (errors ignored), then log in
forceRefresh_unlink ==
    /\ pc = "forceRefresh"
    /\ sessionFile' = NoSession
    /\ pc' = "login"
    /\ trace' = Append(trace, Ev("forceRefresh", 0))
    /\ UNCHANGED <<now, creds, op, stage, session, outcome, fnErrs, startFile,
                   startNow, nextTok, opsLeft>>
    /\ UNCHANGED fetchVars
    /\ UNCHANGED runVars

\* login without the credentials test
login_creds_unchecked ==
    /\ pc = "login"
    /\ trace' = Append(trace, Ev("login", 0))
    /\ pc' = "getClientIp"
    /\ UNCHANGED <<now, creds, sessionFile, op, stage, session, outcome, fnErrs,
                   startFile, startNow, nextTok, opsLeft>>
    /\ UNCHANGED fetchVars
    /\ UNCHANGED runVars

\* login: the credentials test
login_creds ==
    /\ pc = "login"
    /\ trace' = Append(trace, Ev("login", 0))
    /\ IF creds
       THEN /\ pc' = "getClientIp"
            /\ UNCHANGED outcome
       ELSE Finish(Thrown(Err("creds", 0)))
    /\ UNCHANGED <<now, creds, sessionFile, op, stage, session, fnErrs, startFile,
                   startNow, nextTok, opsLeft>>
    /\ UNCHANGED fetchVars
    /\ UNCHANGED runVars

\* login: getClientIp() answers with an address or the fallback, never throws
login_getClientIp ==
    /\ pc = "getClientIp"
    /\ pc' = "post"
    /\ trace' = Append(trace, Ev("getClientIp", 0))
    /\ UNCHANGED <<now, creds, sessionFile, op, stage, session, outcome, fnErrs,
                   startFile, startNow, nextTok, opsLeft>>
    /\ UNCHANGED fetchVars
    /\ UNCHANGED runVars

\* login: the answer of POST /centax/login: a token (traced as 200), a body
\* without Data.login_token (traced as 204), or an error axios throws (its
\* status; 0: no response)
login_post ==
    /\ pc = "post"
    /\ \/ \E s \in {Opaque(nextTok)} \cup {Jwt(nextTok, e) : e \in ExpChoices} :
            /\ trace' = Append(trace, Ev("post", 200))
            /\ session' = s
            /\ nextTok' = nextTok + 1
            /\ pc' = "writeFile"
            /\ UNCHANGED outcome
       \/ /\ trace' = Append(trace, Ev("post", 204))
          /\ Finish(Thrown(Err("notoken", 0)))
          /\ UNCHANGED <<session, nextTok>>
       \/ \E st \in {0, 401, 500} :
            /\ trace' = Append(trace, Ev("post", st))
            /\ Finish(Thrown(Err("post", st)))
            /\ UNCHANGED <<session, nextTok>>
    /\ UNCHANGED <<now, creds, sessionFile, op, stage, fnErrs, startFile, startNow, opsLeft>>
    /\ UNCHANGED fetchVars
    /\ UNCHANGED runVars

\* login: fs.writeFile(SESSION_FILE, ...) and the return
login_writeFile ==
    /\ pc = "writeFile"
    /\ trace' = Append(trace, Ev("writeFile", 0))
    /\ \/ /\ sessionFile' = session
          /\ Deliver(session)
       \/ /\ sessionFile' \in {sessionFile, Unreadable}
          /\ Finish(Thrown(Err("writeFile", 0)))
          /\ UNCHANGED session
    /\ UNCHANGED <<now, creds, op, stage, fnErrs, startFile, startNow, nextTok, opsLeft>>
    /\ UNCHANGED fetchVars
    /\ UNCHANGED runVars

\* authenticatedRequest: requestFn(session) inside the try
authenticatedRequest_fn1 ==
    /\ pc = "fn1"
    /\ \/ /\ trace' = Append(trace, Ev("fn", 200))
          /\ Finish(Returned(session, 1))
          /\ UNCHANGED <<fnErrs, stage>>
       \/ \E st \in FnStatuses :
            /\ trace' = Append(trace, Ev("fn", st))
            /\ fnErrs' = Append(fnErrs, Err("fn1", st))
            /\ IF IsAuthStatus(st)
               THEN /\ pc' = "forceRefresh"
                    /\ stage' = "forceRefresh"
                    /\ UNCHANGED outcome
               ELSE /\ Finish(Thrown(Err("fn1", st)))
                    /\ UNCHANGED stage
    /\ UNCHANGED <<now, creds, sessionFile, op, session, startFile, startNow, nextTok, opsLeft>>
    /\ UNCHANGED fetchVars
    /\ UNCHANGED runVars

\* the catch block as a loop: an authorization-class failure of the retry
\* refreshes again
authenticatedRequest_fn2_loop ==
    /\ pc = "fn2"
    /\ \/ /\ trace' = Append(trace, Ev("fn", 200))
          /\ Finish(Returned(session, 2))
          /\ UNCHANGED fnErrs
       \/ \E st \in FnStatuses :
            /\ trace' = Append(trace, Ev("fn", st))
            /\ fnErrs' = Append(fnErrs, Err("fn2", st))
            /\ IF st \in {401, 403, 409} /\ Len(fnErrs) < 2
               THEN /\ pc' = "forceRefresh"
                    /\ UNCHANGED outcome
               ELSE Finish(Thrown(Err("fn2", st)))
    /\ UNCHANGED <<now, creds, sessionFile, op, stage, session, startFile, startNow,
                   nextTok, opsLeft>>
    /\ UNCHANGED fetchVars
    /\ UNCHANGED runVars

\* authenticatedRequest: requestFn(session) inside the catch
authenticatedRequest_fn2 ==
    /\ pc = "fn2"
    /\ \/ /\ trace' = Append(trace, Ev("fn", 200))
          /\ Finish(Returned(session, 2))
          /\ UNCHANGED fnErrs
       \/ \E st \in FnStatuses :
            /\ trace' = Append(trace, Ev("fn", st))
            /\ fnErrs' = Append(fnErrs, Err("fn2", st))
            /\ Finish(Thrown(Err("fn2", st)))
    /\ UNCHANGED <<now, creds, sessionFile, op, stage, session, startFile, startNow,
                   nextTok, opsLeft>>
    /\ UNCHANGED fetchVars
    /\ UNCHANGED runVars

AuthNext ==
    \/ Tick
    \/ Call
    \/ getSession_read
    \/ forceRefresh_unlink
    \/ login_creds
    \/ login_getClientIp
    \/ login_post
    \/ login_writeFile
    \/ authenticatedRequest_fn1
    \/ authenticatedRequest_fn2

AuthSpec == AuthInit /\ [][AuthNext]_vars

----------------------------------------------------------------------------
(* src/server.js: two route handlers in flight on the one event loop *)

\* /api/search, /api/case/:id/preview, /api/download and /api/analyze each
\* await a function that runs authenticatedRequest; while one handler awaits,
\* the event loop runs the other
ServerInit ==
    /\ now = 0
    /\ creds = TRUE
    /\ sessionFile \in {NoSession, Opaque(0), Jwt(0, (MarginMs \div 1000) + 1)}
    /\ pc = "idle"
    /\ op = "none"
    /\ stage = "none"
    /\ session = NoSession
    /\ outcome = NoOutcome
    /\ trace = <<>>
    /\ fnErrs = <<>>
    /\ startFile = NoSession
    /\ startNow = 0
    /\ nextTok = 1
    \* two requests arrive
    /\ opsLeft = 2
    /\ fpc = "off"
    /\ N = 0
    /\ i = 0
    /\ success = FALSE
    /\ retries = 0
    /\ consecutiveFails = 0
    /\ nCaseTexts = 0
    /\ skippedCount = -1
    /\ itemErrs = <<>>
    /\ itemWaits = <<>>
    /\ skipRun = 0
    /\ onlyRate = TRUE
    /\ nBase = 0
    /\ nPeriodic = 0
    /\ nFailCool = 0
    /\ refreshedTok = 0
    /\ parked = NoRequest
    /\ itemFetches = 0
    /\ itemRelogins = 0
    /\ itemAll409 = TRUE
    /\ dpc = "off"
    /\ dlCases = <<>>
    /\ di = 0
    /\ dir = NoFiles
    /\ dlResult = NoDownload
    /\ dlReqs = 0
    /\ dlBefore = NoFiles
    /\ results = <<>>
    /\ dlLog = <<>>
    /\ downloadedCount = 0
    /\ skippedDownloads = 0
    /\ failCount = 0
    /\ chatHistory = <<>>
    /\ summariesRun = 0
    /\ runPc = [r \in 1..MaxAnalyzeRuns |-> "idle"]
    /\ chatPc = [c \in 1..MaxChats |-> "idle"]
    /\ chatLog = [c \in 1..MaxChats |-> NoChat]
    /\ llmCalls = 0
    /\ pass = 0
    /\ page = 0
    /\ tc = 0
    /\ avail = 0
    /\ searchLog = <<>>
    /\ searchWaits = 0
    /\ spc = "off"
    /\ sumCases = <<>>
    /\ summariesFile = NoSummaries
    /\ cached = NoEntries
    /\ uncached = <<>>
    /\ bi = 0
    /\ sumResult = NoResult
    /\ sumRun = 0
    /\ sumCalls = 0
    /\ sumWrites = 0
    /\ sumWaits = 0
    /\ sumFailed = {}
    /\ loadedFile = NoSummaries
    /\ prevClean = FALSE
    /\ apc = "off"
    /\ hasFilters = FALSE
    /\ count = 0
    /\ found = <<>>
    /\ cases = <<>>
    /\ caseTexts = <<>>
    /\ sent = <<>>
    /\ rankResult = "none"
    /\ cachedSummaries = Null
    /\ analyzedCases = <<>>

\* a route handler reaches its authenticatedRequest call
handler_request ==
    /\ pc = "idle"
    /\ opsLeft > 0
    /\ op' = "authenticatedRequest"
    /\ stage' = "getSession"
    /\ pc' = "getSession"
    /\ opsLeft' = opsLeft - 1
    /\ startFile' = sessionFile
    /\ startNow' = now
    /\ UNCHANGED <<now, creds, sessionFile, session, outcome, trace, fnErrs, nextTok>>
    /\ UNCHANGED fetchVars
    /\ UNCHANGED runVars

\* the handler answers with res.json(...) or res.status(500).json(...) and ends
handler_respond ==
    /\ pc = "done"
    /\ pc' = "idle"
    /\ op' = "none"
    /\ stage' = "none"
    /\ session' = NoSession
    /\ outcome' = NoOutcome
    /\ trace' = <<>>
    /\ fnErrs' = <<>>
    /\ startFile' = NoSession
    /\ startNow' = 0
    /\ UNCHANGED <<now, creds, sessionFile, nextTok, opsLeft>>
    /\ UNCHANGED fetchVars
    /\ UNCHANGED runVars

\* the running handler is at an await: a call runs synchronously up to its
\* first await, so forceRefresh() has issued its unlink and getSession() has
\* entered login() before the event loop can run anything else
AtAwait ==
    /\ pc # "forceRefresh"
    /\ ~(pc = "login" /\ stage = "getSession")

\* the event loop resumes the other handler and the running one waits
Switch ==
    /\ AtAwait
    /\ pc # "done"
    /\ parked.pc = "idle" => opsLeft > 0
    /\ parked' = [pc |-> pc, op |-> op, stage |-> stage, session |-> session,
                  outcome |-> outcome, trace |-> trace, fnErrs |-> fnErrs,
                  startFile |-> startFile, startNow |-> startNow]
    /\ pc' = parked.pc
    /\ op' = parked.op
    /\ stage' = parked.stage
    /\ session' = parked.session
    /\ outcome' = parked.outcome
    /\ trace' = parked.trace
    /\ fnErrs' = parked.fnErrs
    /\ startFile' = parked.startFile
    /\ startNow' = parked.startNow
    /\ UNCHANGED <<now, creds, sessionFile, nextTok, opsLeft, refreshedTok, extVars>>
    /\ UNCHANGED fetchVars
    /\ UNCHANGED <<sumVars, anaVars>>

ServerNext ==
    \/ handler_request
    \/ getSession_read
    \/ forceRefresh_unlink
    \/ login_creds
    \/ login_getClientIp
    \/ login_post
    \/ login_writeFile
    \/ authenticatedRequest_fn1
    \/ authenticatedRequest_fn2
    \/ handler_respond
    \/ Switch

ServerSpec == ServerInit /\ [][ServerNext]_vars

----------------------------------------------------------------------------
(* src/server.js: POST /api/analyze, step 2, the fetch loop *)

MAX_RETRIES == 3
\* consecutiveFails >= 5
FAIL_THRESHOLD == 5
\* (i + 1) % 30
PERIODIC_EVERY == 30
BACKOFF_BASE_MS == 5000
BACKOFF_CAP_MS == 30000
FAIL_COOLDOWN_MS == 30000
BASE_DELAY_MS == 800
PERIODIC_COOLDOWN_MS == 15000

\* cases.length of the runs explored: short lists, and lists that reach the
\* periodic cooldown
WorkLists == (1..MaxShortList) \cup (PERIODIC_EVERY..(PERIODIC_EVERY + MaxBeyond))

\* err.message as a string of characters; <<>> is an error without a message
Msg409 == <<"c", "o", "d", "e", " ", "4", "0", "9">>
MsgLimit == <<"r", "a", "t", "e", " ", "l", "i", "m", "i", "t">>
Msg500 == <<"c", "o", "d", "e", " ", "5", "0", "0">>
MsgShort == <<"t", "o", "o", " ", "s", "h", "o", "r", "t">>
Messages == {Msg409, MsgLimit, Msg500, MsgShort, <<>>}

\* String.prototype.includes
includes(str, sub) ==
    \E k \in 1..(Len(str) - Len(sub) + 1) : SubSeq(str, k, k + Len(sub) - 1) = sub

\* a classification by the word 'code' of axios's messages
isRateLimit_anyCode(message) ==
    includes(message, <<"c", "o", "d", "e">>) \/ includes(message, <<"l", "i", "m", "i", "t">>)

isRateLimit(message) ==
    includes(message, <<"4", "0", "9">>) \/ includes(message, <<"l", "i", "m", "i", "t">>)

\* Math.pow(2, n)
RECURSIVE Pow2(_)
Pow2(n) == IF n <= 0 THEN 1 ELSE 2 * Pow2(n - 1)

Min(a, b) == IF a < b THEN a ELSE b

\* the exponent counted from 0
backoff_fromBase(r) == Min(BACKOFF_BASE_MS * Pow2(r - 1), BACKOFF_CAP_MS)

\* Math.min(5000 * Math.pow(2, retries), 30000)
backoff(r) == Min(BACKOFF_BASE_MS * Pow2(r), BACKOFF_CAP_MS)

Wait(w, ms) == [why |-> w, ms |-> ms]

FetchInit ==
    /\ fpc = "for"
    /\ N \in WorkLists
    /\ i = 0
    /\ success = FALSE
    /\ retries = 0
    /\ consecutiveFails = 0
    /\ nCaseTexts = 0
    /\ skippedCount = -1
    /\ itemErrs = <<>>
    /\ itemWaits = <<>>
    /\ skipRun = 0
    /\ onlyRate = TRUE
    /\ nBase = 0
    /\ nPeriodic = 0
    /\ nFailCool = 0
    \* no caller of auth.js is modelled: getCaseHTML ends in a value or an error
    /\ now = 0
    /\ creds = TRUE
    /\ sessionFile = NoSession
    /\ pc = "idle"
    /\ op = "none"
    /\ stage = "none"
    /\ session = NoSession
    /\ outcome = NoOutcome
    /\ trace = <<>>
    /\ fnErrs = <<>>
    /\ startFile = NoSession
    /\ startNow = 0
    /\ nextTok = 1
    /\ opsLeft = 0
    /\ refreshedTok = 0
    /\ parked = NoRequest
    /\ itemFetches = 0
    /\ itemRelogins = 0
    /\ itemAll409 = TRUE
    /\ dpc = "off"
    /\ dlCases = <<>>
    /\ di = 0
    /\ dir = NoFiles
    /\ dlResult = NoDownload
    /\ dlReqs = 0
    /\ dlBefore = NoFiles
    /\ results = <<>>
    /\ dlLog = <<>>
    /\ downloadedCount = 0
    /\ skippedDownloads = 0
    /\ failCount = 0
    /\ chatHistory = <<>>
    /\ summariesRun = 0
    /\ runPc = [r \in 1..MaxAnalyzeRuns |-> "idle"]
    /\ chatPc = [c \in 1..MaxChats |-> "idle"]
    /\ chatLog = [c \in 1..MaxChats |-> NoChat]
    /\ llmCalls = 0
    /\ pass = 0
    /\ page = 0
    /\ tc = 0
    /\ avail = 0
    /\ searchLog = <<>>
    /\ searchWaits = 0
    /\ spc = "off"
    /\ sumCases = <<>>
    /\ summariesFile = NoSummaries
    /\ cached = NoEntries
    /\ uncached = <<>>
    /\ bi = 0
    /\ sumResult = NoResult
    /\ sumRun = 0
    /\ sumCalls = 0
    /\ sumWrites = 0
    /\ sumWaits = 0
    /\ sumFailed = {}
    /\ loadedFile = NoSummaries
    /\ prevClean = FALSE
    /\ apc = "off"
    /\ hasFilters = FALSE
    /\ count = 0
    /\ found = <<>>
    /\ cases = <<>>
    /\ caseTexts = <<>>
    /\ sent = <<>>
    /\ rankResult = "none"
    /\ cachedSummaries = Null
    /\ analyzedCases = <<>>

\* for (let i = 0; i < cases.length; i++) { let success = false; let retries = 0;
\* and, past the loop, const skippedCount = cases.length - caseTexts.length
forHead ==
    /\ fpc = "for"
    /\ IF i < N
       THEN /\ fpc' = "while"
            /\ success' = FALSE
            /\ retries' = 0
            /\ itemErrs' = <<>>
            /\ itemWaits' = <<>>
            /\ skipRun' = IF \E k \in 1..Len(itemWaits) : itemWaits[k].why = "failures"
                          THEN 0 ELSE skipRun
            /\ UNCHANGED skippedCount
       ELSE /\ fpc' = "fetch_done"
            /\ skippedCount' = N - nCaseTexts
            /\ UNCHANGED <<success, retries, itemErrs, itemWaits, skipRun>>
    /\ UNCHANGED <<N, i, consecutiveFails, nCaseTexts, onlyRate, nBase, nPeriodic, nFailCool>>
    /\ UNCHANGED authVars
    /\ UNCHANGED runVars

\* while (!success && retries < MAX_RETRIES)
whileHead ==
    /\ fpc = "while"
    /\ fpc' = IF ~success /\ retries < MAX_RETRIES THEN "getCaseHTML" ELSE "afterWhile"
    /\ UNCHANGED <<N, i, success, retries, consecutiveFails, nCaseTexts, skippedCount,
                   itemErrs, itemWaits, skipRun, onlyRate, nBase, nPeriodic, nFailCool>>
    /\ UNCHANGED authVars
    /\ UNCHANGED runVars

\* the try block without consecutiveFails = 0
getCaseHTML_ok_noReset ==
    /\ fpc = "getCaseHTML"
    /\ nCaseTexts' = nCaseTexts + 1
    /\ success' = TRUE
    /\ fpc' = "while"
    /\ onlyRate' = FALSE
    /\ UNCHANGED <<N, i, retries, consecutiveFails, skippedCount, itemErrs, itemWaits,
                   skipRun, nBase, nPeriodic, nFailCool>>
    /\ UNCHANGED authVars
    /\ caseTexts' = IF i < Len(cases) THEN Append(caseTexts, cases[i + 1]) ELSE caseTexts
    /\ UNCHANGED <<refreshedTok, parked, extVars, sumVars, apc, hasFilters, count, found, cases,
                   sent, rankResult, cachedSummaries, analyzedCases>>

\* await getCaseHTML(cases[i].id) returned: the try block (caseTexts.push keeps
\* the id where the work list itself is modelled, its length otherwise)
getCaseHTML_ok ==
    /\ fpc = "getCaseHTML"
    /\ nCaseTexts' = nCaseTexts + 1
    /\ success' = TRUE
    /\ consecutiveFails' = 0
    /\ fpc' = "while"
    /\ onlyRate' = FALSE
    /\ UNCHANGED <<N, i, retries, skippedCount, itemErrs, itemWaits, skipRun, nBase,
                   nPeriodic, nFailCool>>
    /\ UNCHANGED authVars
    /\ caseTexts' = IF i < Len(cases) THEN Append(caseTexts, cases[i + 1]) ELSE caseTexts
    /\ UNCHANGED <<refreshedTok, parked, extVars, sumVars, apc, hasFilters, count, found, cases,
                   sent, rankResult, cachedSummaries, analyzedCases>>

\* the catch block without retries++
getCaseHTML_throw_noCount ==
    /\ fpc = "getCaseHTML"
    /\ \E message \in Messages :
         /\ itemErrs' = Append(itemErrs, message)
         /\ onlyRate' = (onlyRate /\ (includes(message, <<"4", "0", "9">>)
                                       \/ includes(message, <<"l", "i", "m", "i", "t">>)))
         /\ IF isRateLimit(message) /\ retries < MAX_RETRIES
            THEN /\ itemWaits' = Append(itemWaits, Wait("backoff", backoff(retries)))
                 /\ fpc' = "while"
                 /\ UNCHANGED consecutiveFails
            ELSE /\ consecutiveFails' = consecutiveFails + 1
                 /\ fpc' = "afterWhile"
                 /\ UNCHANGED itemWaits
    /\ UNCHANGED <<N, i, success, retries, nCaseTexts, skippedCount, skipRun, nBase,
                   nPeriodic, nFailCool>>
    /\ UNCHANGED authVars
    /\ UNCHANGED runVars

\* await getCaseHTML(cases[i].id) threw: the catch block
getCaseHTML_throw ==
    /\ fpc = "getCaseHTML"
    /\ \E message \in Messages :
         /\ retries' = retries + 1
         /\ itemErrs' = Append(itemErrs, message)
         /\ onlyRate' = (onlyRate /\ (includes(message, <<"4", "0", "9">>)
                                       \/ includes(message, <<"l", "i", "m", "i", "t">>)))
         /\ IF isRateLimit(message) /\ retries + 1 < MAX_RETRIES
            THEN /\ itemWaits' = Append(itemWaits, Wait("backoff", backoff(retries + 1)))
                 /\ fpc' = "while"
                 /\ UNCHANGED consecutiveFails
            ELSE /\ consecutiveFails' = consecutiveFails + 1
                 /\ fpc' = "afterWhile"
                 /\ UNCHANGED itemWaits
    /\ UNCHANGED <<N, i, success, nCaseTexts, skippedCount, skipRun, nBase, nPeriodic,
                   nFailCool>>
    /\ UNCHANGED authVars
    /\ UNCHANGED runVars

\* past the while loop: the progress message; cases[i] was read or is skipped
afterWhile ==
    /\ fpc = "afterWhile"
    /\ fpc' = "failures"
    /\ skipRun' = IF success THEN 0 ELSE skipRun + 1
    /\ UNCHANGED <<N, i, success, retries, consecutiveFails, nCaseTexts, skippedCount,
                   itemErrs, itemWaits, onlyRate, nBase, nPeriodic, nFailCool>>
    /\ UNCHANGED authVars
    /\ UNCHANGED runVars

\* the cooldown without consecutiveFails = 0
failureCooldown_noReset ==
    /\ fpc = "failures"
    /\ fpc' = "base"
    /\ IF consecutiveFails >= FAIL_THRESHOLD
       THEN /\ itemWaits' = Append(itemWaits, Wait("failures", FAIL_COOLDOWN_MS))
            /\ nFailCool' = nFailCool + 1
       ELSE UNCHANGED <<itemWaits, nFailCool>>
    /\ UNCHANGED <<N, i, success, retries, consecutiveFails, nCaseTexts, skippedCount,
                   itemErrs, skipRun, onlyRate, nBase, nPeriodic>>
    /\ UNCHANGED authVars
    /\ UNCHANGED runVars

\* if (consecutiveFails >= 5) { await 30 s; consecutiveFails = 0; }
failureCooldown ==
    /\ fpc = "failures"
    /\ fpc' = "base"
    /\ IF consecutiveFails >= FAIL_THRESHOLD
       THEN /\ itemWaits' = Append(itemWaits, Wait("failures", FAIL_COOLDOWN_MS))
            /\ nFailCool' = nFailCool + 1
            /\ consecutiveFails' = 0
       ELSE UNCHANGED <<itemWaits, nFailCool, consecutiveFails>>
    /\ UNCHANGED <<N, i, success, retries, nCaseTexts, skippedCount, itemErrs, skipRun,
                   onlyRate, nBase, nPeriodic>>
    /\ UNCHANGED authVars
    /\ UNCHANGED runVars

\* the base delay after the last item too
baseDelay_always ==
    /\ fpc = "base"
    /\ fpc' = "periodic"
    /\ itemWaits' = Append(itemWaits, Wait("base", BASE_DELAY_MS))
    /\ nBase' = nBase + 1
    /\ UNCHANGED <<N, i, success, retries, consecutiveFails, nCaseTexts, skippedCount,
                   itemErrs, skipRun, onlyRate, nPeriodic, nFailCool>>
    /\ UNCHANGED authVars
    /\ UNCHANGED runVars

\* if (i < cases.length - 1) await 800 ms
baseDelay ==
    /\ fpc = "base"
    /\ fpc' = "periodic"
    /\ IF i < N - 1
       THEN /\ itemWaits' = Append(itemWaits, Wait("base", BASE_DELAY_MS))
            /\ nBase' = nBase + 1
       ELSE UNCHANGED <<itemWaits, nBase>>
    /\ UNCHANGED <<N, i, success, retries, consecutiveFails, nCaseTexts, skippedCount,
                   itemErrs, skipRun, onlyRate, nPeriodic, nFailCool>>
    /\ UNCHANGED authVars
    /\ UNCHANGED runVars

\* if ((i + 1) % 30 === 0 && i < cases.length - 1) await 15 s; then i++
periodicCooldown ==
    /\ fpc = "periodic"
    /\ fpc' = "for"
    /\ i' = i + 1
    /\ IF (i + 1) % PERIODIC_EVERY = 0 /\ i < N - 1
       THEN /\ itemWaits' = Append(itemWaits, Wait("periodic", PERIODIC_COOLDOWN_MS))
            /\ nPeriodic' = nPeriodic + 1
       ELSE UNCHANGED <<itemWaits, nPeriodic>>
    /\ UNCHANGED <<N, success, retries, consecutiveFails, nCaseTexts, skippedCount,
                   itemErrs, skipRun, onlyRate, nBase, nFailCool>>
    /\ UNCHANGED authVars
    /\ UNCHANGED runVars

FetchNext ==
    \/ forHead
    \/ whileHead
    \/ getCaseHTML_ok
    \/ getCaseHTML_throw
    \/ afterWhile
    \/ failureCooldown
    \/ baseDelay
    \/ periodicCooldown

FetchSpec == FetchInit /\ [][FetchNext]_vars

\* the short work lists only
FetchShortInit ==
    /\ fpc = "for"
    /\ N \in 1..MaxShortList
    /\ i = 0
    /\ success = FALSE
    /\ retries = 0
    /\ consecutiveFails = 0
    /\ nCaseTexts = 0
    /\ skippedCount = -1
    /\ itemErrs = <<>>
    /\ itemWaits = <<>>
    /\ skipRun = 0
    /\ onlyRate = TRUE
    /\ nBase = 0
    /\ nPeriodic = 0
    /\ nFailCool = 0
    \* no caller of auth.js is modelled: getCaseHTML ends in a value or an error
    /\ now = 0
    /\ creds = TRUE
    /\ sessionFile = NoSession
    /\ pc = "idle"
    /\ op = "none"
    /\ stage = "none"
    /\ session = NoSession
    /\ outcome = NoOutcome
    /\ trace = <<>>
    /\ fnErrs = <<>>
    /\ startFile = NoSession
    /\ startNow = 0
    /\ nextTok = 1
    /\ opsLeft = 0
    /\ refreshedTok = 0
    /\ parked = NoRequest
    /\ itemFetches = 0
    /\ itemRelogins = 0
    /\ itemAll409 = TRUE
    /\ dpc = "off"
    /\ dlCases = <<>>
    /\ di = 0
    /\ dir = NoFiles
    /\ dlResult = NoDownload
    /\ dlReqs = 0
    /\ dlBefore = NoFiles
    /\ results = <<>>
    /\ dlLog = <<>>
    /\ downloadedCount = 0
    /\ skippedDownloads = 0
    /\ failCount = 0
    /\ chatHistory = <<>>
    /\ summariesRun = 0
    /\ runPc = [r \in 1..MaxAnalyzeRuns |-> "idle"]
    /\ chatPc = [c \in 1..MaxChats |-> "idle"]
    /\ chatLog = [c \in 1..MaxChats |-> NoChat]
    /\ llmCalls = 0
    /\ pass = 0
    /\ page = 0
    /\ tc = 0
    /\ avail = 0
    /\ searchLog = <<>>
    /\ searchWaits = 0
    /\ spc = "off"
    /\ sumCases = <<>>
    /\ summariesFile = NoSummaries
    /\ cached = NoEntries
    /\ uncached = <<>>
    /\ bi = 0
    /\ sumResult = NoResult
    /\ sumRun = 0
    /\ sumCalls = 0
    /\ sumWrites = 0
    /\ sumWaits = 0
    /\ sumFailed = {}
    /\ loadedFile = NoSummaries
    /\ prevClean = FALSE
    /\ apc = "off"
    /\ hasFilters = FALSE
    /\ count = 0
    /\ found = <<>>
    /\ cases = <<>>
    /\ caseTexts = <<>>
    /\ sent = <<>>
    /\ rankResult = "none"
    /\ cachedSummaries = Null
    /\ analyzedCases = <<>>

\* every await of the loop settles (a setTimeout fires, getCaseHTML returns or
\* throws), so the handler takes its next step
FetchLiveSpec == FetchShortInit /\ [][FetchNext]_vars /\ WF_vars(FetchNext)

----------------------------------------------------------------------------
(* src/src/analyzer.js: summarizeAll *)

BATCH_SIZE == 5

\* the ids 1 .. n in order
RECURSIVE UpTo(_)
UpTo(n) == IF n <= 0 THEN <<>> ELSE Append(UpTo(n - 1), n)

\* the elements of a sequence
Range(seq) == {seq[k] : k \in 1..Len(seq)}

SummarizeInit ==
    /\ spc = "off"
    /\ sumCases \in {UpTo(n) : n \in 0..MaxCases}
    /\ summariesFile \in {BadSummaries} \cup
                          {Summaries([x \in S |-> 0]) : S \in SUBSET (1..MaxCases)}
    /\ cached = NoEntries
    /\ uncached = <<>>
    /\ bi = 0
    /\ sumResult = NoResult
    /\ sumRun = 0
    /\ sumCalls = 0
    /\ sumWrites = 0
    /\ sumWaits = 0
    /\ sumFailed = {}
    /\ loadedFile = NoSummaries
    /\ prevClean = FALSE
    /\ apc = "off"
    /\ hasFilters = FALSE
    /\ count = 0
    /\ found = <<>>
    /\ cases = <<>>
    /\ caseTexts = <<>>
    /\ sent = <<>>
    /\ rankResult = "none"
    /\ cachedSummaries = Null
    /\ analyzedCases = <<>>
    \* neither the analyze handler nor a caller of auth.js is modelled
    /\ now = 0
    /\ creds = TRUE
    /\ sessionFile = NoSession
    /\ pc = "idle"
    /\ op = "none"
    /\ stage = "none"
    /\ session = NoSession
    /\ outcome = NoOutcome
    /\ trace = <<>>
    /\ fnErrs = <<>>
    /\ startFile = NoSession
    /\ startNow = 0
    /\ nextTok = 1
    /\ opsLeft = 0
    /\ fpc = "off"
    /\ N = 0
    /\ i = 0
    /\ success = FALSE
    /\ retries = 0
    /\ consecutiveFails = 0
    /\ nCaseTexts = 0
    /\ skippedCount = -1
    /\ itemErrs = <<>>
    /\ itemWaits = <<>>
    /\ skipRun = 0
    /\ onlyRate = TRUE
    /\ nBase = 0
    /\ nPeriodic = 0
    /\ nFailCool = 0
    /\ refreshedTok = 0
    /\ parked = NoRequest
    /\ itemFetches = 0
    /\ itemRelogins = 0
    /\ itemAll409 = TRUE
    /\ dpc = "off"
    /\ dlCases = <<>>
    /\ di = 0
    /\ dir = NoFiles
    /\ dlResult = NoDownload
    /\ dlReqs = 0
    /\ dlBefore = NoFiles
    /\ results = <<>>
    /\ dlLog = <<>>
    /\ downloadedCount = 0
    /\ skippedDownloads = 0
    /\ failCount = 0
    /\ chatHistory = <<>>
    /\ summariesRun = 0
    /\ runPc = [r \in 1..MaxAnalyzeRuns |-> "idle"]
    /\ chatPc = [c \in 1..MaxChats |-> "idle"]
    /\ chatLog = [c \in 1..MaxChats |-> NoChat]
    /\ llmCalls = 0
    /\ pass = 0
    /\ page = 0
    /\ tc = 0
    /\ avail = 0
    /\ searchLog = <<>>
    /\ searchWaits = 0

\* a caller invokes summarizeAll(cases, keywords, context) with the same cases
summarizeAll_call ==
    /\ spc \in {"off", "returned", "thrown"}
    /\ sumRun < MaxRuns
    /\ spc' = "load"
    /\ sumRun' = sumRun + 1
    /\ prevClean' = (spc = "returned" /\ sumFailed = {})
    /\ sumResult' = NoResult
    /\ sumCalls' = 0
    /\ sumWrites' = 0
    /\ sumWaits' = 0
    /\ sumFailed' = {}
    /\ UNCHANGED <<sumCases, summariesFile, cached, uncached, bi, loadedFile>>
    /\ UNCHANGED <<authVars, fetchVars, refreshedTok, parked, extVars, anaVars>>

\* every case taken for uncached
summarizeAll_load_noFilter ==
    /\ spc = "load"
    /\ loadedFile' = summariesFile
    /\ LET loaded == IF summariesFile.readable THEN summariesFile.entries ELSE NoEntries
           unc == sumCases
       IN  /\ cached' = loaded
           /\ uncached' = unc
           /\ bi' = 0
           /\ IF Len(unc) = 0
              THEN /\ spc' = "returned"
                   /\ sumResult' = [kind |-> "return", value |-> loaded]
              ELSE /\ spc' = "allSettled"
                   /\ UNCHANGED sumResult
    /\ UNCHANGED <<sumCases, summariesFile, sumRun, sumCalls, sumWrites, sumWaits,
                   sumFailed, prevClean>>
    /\ UNCHANGED <<authVars, fetchVars, refreshedTok, parked, extVars, anaVars>>

\* const cached = loadSummaries(); const uncached = cases.filter(...);
\* if (uncached.length === 0) return cached
summarizeAll_load ==
    /\ spc = "load"
    /\ loadedFile' = summariesFile
    /\ LET loaded == IF summariesFile.readable THEN summariesFile.entries ELSE NoEntries
           unc == SelectSeq(sumCases, LAMBDA c : c \notin DOMAIN loaded)
       IN  /\ cached' = loaded
           /\ uncached' = unc
           /\ bi' = 0
           /\ IF Len(unc) = 0
              THEN /\ spc' = "returned"
                   /\ sumResult' = [kind |-> "return", value |-> loaded]
              ELSE /\ spc' = "allSettled"
                   /\ UNCHANGED sumResult
    /\ UNCHANGED <<sumCases, summariesFile, sumRun, sumCalls, sumWrites, sumWaits,
                   sumFailed, prevClean>>
    /\ UNCHANGED <<authVars, fetchVars, refreshedTok, parked, extVars, anaVars>>

\* const batch = uncached.slice(i, i + BATCH_SIZE)
Batch == SubSeq(uncached, bi + 1, Min(bi + BATCH_SIZE, Len(uncached)))

\* await Promise.allSettled(batch.map(summarizeCase)), then results.forEach:
\* a fulfilled summary enters cached, a rejection is logged
summarizeAll_allSettled ==
    /\ spc = "allSettled"
    /\ \E fulfilled \in SUBSET Range(Batch) :
         /\ cached' = [x \in DOMAIN cached \cup fulfilled |->
                          IF x \in fulfilled THEN sumRun ELSE cached[x]]
         /\ sumFailed' = sumFailed \cup (Range(Batch) \ fulfilled)
    /\ sumCalls' = sumCalls + Len(Batch)
    /\ spc' = "saveSummaries"
    /\ UNCHANGED <<sumCases, summariesFile, uncached, bi, sumResult, sumRun, sumWrites,
                   sumWaits, loadedFile, prevClean>>
    /\ UNCHANGED <<authVars, fetchVars, refreshedTok, parked, extVars, anaVars>>

\* saveSummaries(cached): fs.writeFileSync succeeds or throws; then the 200 ms
\* wait before the next batch, or return cached after the last one
summarizeAll_saveSummaries ==
    /\ spc = "saveSummaries"
    /\ sumWrites' = sumWrites + 1
    /\ \/ /\ summariesFile' = Summaries(cached)
          /\ IF bi + BATCH_SIZE < Len(uncached)
             THEN /\ sumWaits' = sumWaits + 1
                  /\ bi' = bi + BATCH_SIZE
                  /\ spc' = "allSettled"
                  /\ UNCHANGED sumResult
             ELSE /\ spc' = "returned"
                  /\ sumResult' = [kind |-> "return", value |-> cached]
                  /\ UNCHANGED <<sumWaits, bi>>
       \/ /\ summariesFile' \in {summariesFile, BadSummaries}
          /\ spc' = "thrown"
          /\ sumResult' = [kind |-> "throw", value |-> NoEntries]
          /\ UNCHANGED <<sumWaits, bi>>
    /\ UNCHANGED <<sumCases, cached, uncached, sumRun, sumCalls, sumFailed, loadedFile,
                   prevClean>>
    /\ UNCHANGED <<authVars, fetchVars, refreshedTok, parked, extVars, anaVars>>

SummarizeNext ==
    \/ summarizeAll_call
    \/ summarizeAll_load
    \/ summarizeAll_allSettled
    \/ summarizeAll_saveSummaries

SummarizeSpec == SummarizeInit /\ [][SummarizeNext]_vars

----------------------------------------------------------------------------
(* src/server.js: POST /api/analyze, from the search to the last message *)

\* the case ids the search may answer with
Ids == 1..MaxIds

\* what doSearch may hand back: any list of ids, repeated ids included
FoundLists == UNION {[1..n -> Ids] : n \in 0..MaxFound}

\* send({ step, ... }); n is the number the message reports
Sent(step, n) == [step |-> step, n |-> n]

\* cases.slice(a, b), 0 <= a, 0 <= b
slice(cs, a, b) == SubSeq(cs, a + 1, Min(b, Len(cs)))

\* for (const c of cases) if (!seenIds.has(c.id)) { seenIds.add(c.id); uniqueCases.push(c) }
RECURSIVE Dedup(_, _)
Dedup(cs, seenIds) ==
    IF cs = <<>> THEN <<>>
    ELSE IF Head(cs) \in seenIds
         THEN Dedup(Tail(cs), seenIds)
         ELSE <<Head(cs)>> \o Dedup(Tail(cs), seenIds \cup {Head(cs)})

\* only a repetition next to its first occurrence is dropped
RECURSIVE uniqueCases_adjacent(_)
uniqueCases_adjacent(cs) ==
    IF Len(cs) <= 1 THEN cs
    ELSE IF cs[1] = cs[2]
         THEN uniqueCases_adjacent(Tail(cs))
         ELSE <<cs[1]>> \o uniqueCases_adjacent(Tail(cs))

\* const uniqueCases
uniqueCases(cs) == Dedup(cs, {})

AnalyzeInit ==
    /\ apc = "search"
    /\ hasFilters \in BOOLEAN
    /\ count \in 1..MaxFound
    /\ found = <<>>
    /\ cases = <<>>
    /\ caseTexts = <<>>
    /\ sent = <<Sent("search", 0)>>
    /\ rankResult = "none"
    /\ cachedSummaries = Null
    /\ analyzedCases = <<>>
    /\ summariesFile \in {NoSummaries, BadSummaries, Summaries([x \in {1} |-> 0]),
                          Summaries([x \in Ids |-> 0])}
    /\ spc = "off"
    /\ sumCases = <<>>
    /\ cached = NoEntries
    /\ uncached = <<>>
    /\ bi = 0
    /\ sumResult = NoResult
    /\ sumRun = 0
    /\ sumCalls = 0
    /\ sumWrites = 0
    /\ sumWaits = 0
    /\ sumFailed = {}
    /\ loadedFile = NoSummaries
    /\ prevClean = FALSE
    /\ fpc = "off"
    /\ N = 0
    /\ i = 0
    /\ success = FALSE
    /\ retries = 0
    /\ consecutiveFails = 0
    /\ nCaseTexts = 0
    /\ skippedCount = -1
    /\ itemErrs = <<>>
    /\ itemWaits = <<>>
    /\ skipRun = 0
    /\ onlyRate = TRUE
    /\ nBase = 0
    /\ nPeriodic = 0
    /\ nFailCool = 0
    \* getCaseHTML ends in a value or an error: no caller of auth.js is modelled
    /\ now = 0
    /\ creds = TRUE
    /\ sessionFile = NoSession
    /\ pc = "idle"
    /\ op = "none"
    /\ stage = "none"
    /\ session = NoSession
    /\ outcome = NoOutcome
    /\ trace = <<>>
    /\ fnErrs = <<>>
    /\ startFile = NoSession
    /\ startNow = 0
    /\ nextTok = 1
    /\ opsLeft = 0
    /\ refreshedTok = 0
    /\ parked = NoRequest
    /\ itemFetches = 0
    /\ itemRelogins = 0
    /\ itemAll409 = TRUE
    /\ dpc = "off"
    /\ dlCases = <<>>
    /\ di = 0
    /\ dir = NoFiles
    /\ dlResult = NoDownload
    /\ dlReqs = 0
    /\ dlBefore = NoFiles
    /\ results = <<>>
    /\ dlLog = <<>>
    /\ downloadedCount = 0
    /\ skippedDownloads = 0
    /\ failCount = 0
    /\ chatHistory = <<>>
    /\ summariesRun = 0
    /\ runPc = [r \in 1..MaxAnalyzeRuns |-> "idle"]
    /\ chatPc = [c \in 1..MaxChats |-> "idle"]
    /\ chatLog = [c \in 1..MaxChats |-> NoChat]
    /\ llmCalls = 0
    /\ pass = 0
    /\ page = 0
    /\ tc = 0
    /\ avail = 0
    /\ searchLog = <<>>
    /\ searchWaits = 0

\* the catch ends the response without writing a message
Catch_silent ==
    /\ sent' = sent
    /\ apc' = "ended"

\* } catch (err) { res.write({ step: 'error', message: err.message }); res.end(); }
Catch ==
    /\ sent' = Append(sent, Sent("error", 0))
    /\ apc' = "ended"

\* let searchData = await doSearch(apiFilter, isHeadnoteOnly): searchCases
\* throws, or the pages add up to a list; an empty list under filters is
\* searched again without them
doSearch ==
    /\ apc = "search"
    /\ \/ /\ Catch
          /\ UNCHANGED found
       \/ \E f \in FoundLists :
            /\ found' = f
            /\ IF Len(f) = 0 /\ hasFilters
               THEN /\ sent' = Append(sent, Sent("search", 0))
                    /\ apc' = "retry"
               ELSE /\ apc' = "trim"
                    /\ UNCHANGED sent
    /\ UNCHANGED <<hasFilters, count, cases, caseTexts, rankResult, cachedSummaries,
                   analyzedCases>>
    /\ UNCHANGED <<authVars, fetchVars, refreshedTok, parked, extVars, sumVars>>

\* searchData = await doSearch({}, false)
doSearch_retry ==
    /\ apc = "retry"
    /\ \/ /\ Catch
          /\ UNCHANGED found
       \/ \E f \in FoundLists :
            /\ found' = f
            /\ apc' = "trim"
            /\ UNCHANGED sent
    /\ UNCHANGED <<hasFilters, count, cases, caseTexts, rankResult, cachedSummaries,
                   analyzedCases>>
    /\ UNCHANGED <<authVars, fetchVars, refreshedTok, parked, extVars, sumVars>>

\* cases = cases.slice(0, count); ...; cases = uniqueCases
trimAndDedup ==
    /\ apc = "trim"
    /\ cases' = uniqueCases(slice(found, 0, count))
    /\ apc' = "search_done"
    /\ UNCHANGED <<hasFilters, count, found, caseTexts, sent, rankResult, cachedSummaries,
                   analyzedCases>>
    /\ UNCHANGED <<authVars, fetchVars, refreshedTok, parked, extVars, sumVars>>

\* the empty work list is not told apart
searchDone_noEmptyCheck ==
    /\ apc = "search_done"
    /\ found' = <<>>
    /\ sent' = sent \o <<Sent("search_done", Len(cases)), Sent("fetch", 0)>>
    /\ apc' = "fetch"
    /\ fpc' = "for"
    /\ N' = Len(cases)
    /\ i' = 0
    /\ consecutiveFails' = 0
    /\ nCaseTexts' = 0
    /\ caseTexts' = <<>>
    /\ UNCHANGED <<success, retries, skippedCount, itemErrs, itemWaits, skipRun, onlyRate,
                   nBase, nPeriodic, nFailCool>>
    /\ UNCHANGED <<hasFilters, count, cases, rankResult, cachedSummaries, analyzedCases>>
    /\ UNCHANGED <<authVars, refreshedTok, parked, extVars, sumVars>>

\* send({ step: 'search_done' }); if (cases.length === 0) { send({ step: 'error' });
\* return res.end(); }  send({ step: 'fetch' }); const caseTexts = []; ...
searchDone ==
    /\ apc = "search_done"
    /\ found' = <<>>
    /\ IF Len(cases) = 0
       THEN /\ sent' = sent \o <<Sent("search_done", 0), Sent("error", 0)>>
            /\ apc' = "ended"
            /\ UNCHANGED <<fpc, N, i, consecutiveFails, nCaseTexts, caseTexts>>
       ELSE /\ sent' = sent \o <<Sent("search_done", Len(cases)), Sent("fetch", 0)>>
            /\ apc' = "fetch"
            /\ fpc' = "for"
            /\ N' = Len(cases)
            /\ i' = 0
            /\ consecutiveFails' = 0
            /\ nCaseTexts' = 0
            /\ caseTexts' = <<>>
    /\ UNCHANGED <<success, retries, skippedCount, itemErrs, itemWaits, skipRun, onlyRate,
                   nBase, nPeriodic, nFailCool>>
    /\ UNCHANGED <<hasFilters, count, cases, rankResult, cachedSummaries, analyzedCases>>
    /\ UNCHANGED <<authVars, refreshedTok, parked, extVars, sumVars>>

\* a run that read no case ends with an error
fetchDone_failOnNoneRead ==
    /\ apc = "fetch"
    /\ fpc = "fetch_done"
    /\ IF nCaseTexts = 0
       THEN /\ Catch
            /\ UNCHANGED <<spc, sumCases, sumRun>>
       ELSE /\ sent' = sent \o <<Sent("fetch_done", skippedCount), Sent("summarize", Len(caseTexts))>>
            /\ apc' = "summarize"
            /\ spc' = "load"
            /\ sumCases' = caseTexts
            /\ sumRun' = sumRun + 1
    /\ UNCHANGED <<summariesFile, cached, uncached, bi, sumResult, sumCalls, sumWrites,
                   sumWaits, sumFailed, loadedFile, prevClean>>
    /\ UNCHANGED <<hasFilters, count, found, cases, caseTexts, rankResult, cachedSummaries,
                   analyzedCases>>
    /\ UNCHANGED <<authVars, fetchVars, refreshedTok, parked, extVars>>

\* send({ step: 'fetch_done' }) with the skipped count; send({ step: 'summarize' });
\* const allSummaries = await summarizeAll(caseTexts, keywords, context)
fetchDone ==
    /\ apc = "fetch"
    /\ fpc = "fetch_done"
    /\ sent' = sent \o <<Sent("fetch_done", skippedCount), Sent("summarize", Len(caseTexts))>>
    /\ apc' = "summarize"
    /\ spc' = "load"
    /\ sumCases' = caseTexts
    /\ sumRun' = sumRun + 1
    /\ UNCHANGED <<summariesFile, cached, uncached, bi, sumResult, sumCalls, sumWrites,
                   sumWaits, sumFailed, loadedFile, prevClean>>
    /\ UNCHANGED <<hasFilters, count, found, cases, caseTexts, rankResult, cachedSummaries,
                   analyzedCases>>
    /\ UNCHANGED <<authVars, fetchVars, refreshedTok, parked, extVars>>

\* for (const [id, val] of Object.entries(allSummaries))
\*     if (currentIds.has(id)) currentSummaries[id] = val
currentSummaries == [x \in DOMAIN sumResult.value \cap Range(caseTexts) |-> sumResult.value[x]]

\* summarizeAll returned or threw: cachedSummaries = currentSummaries;
\* send({ step: 'summarize_done' }) with totalAnalyzed; send({ step: 'rank' })
summarizeDone ==
    /\ apc = "summarize"
    /\ spc \in {"returned", "thrown"}
    /\ IF spc = "thrown"
       THEN /\ Catch
            /\ UNCHANGED <<cachedSummaries, summariesRun>>
       ELSE /\ cachedSummaries' = [null |-> FALSE, entries |-> currentSummaries]
            /\ summariesRun' = 1
            /\ sent' = sent \o <<Sent("summarize_done", Cardinality(DOMAIN currentSummaries)),
                                 Sent("rank", Cardinality(DOMAIN currentSummaries))>>
            /\ apc' = "rank"
    /\ UNCHANGED <<hasFilters, count, found, cases, caseTexts, rankResult, analyzedCases>>
    /\ UNCHANGED <<chatHistory, runPc, chatPc, chatLog, llmCalls>>
    /\ UNCHANGED <<authVars, fetchVars, refreshedTok, parked, itemVars, searchVars, dlVars,
                   sumVars>>

\* const rankResult = await rankByRelevance(currentSummaries, context): the
\* OpenAI call returns or throws; analyzedCases = caseTexts; send({ step: 'done' })
rankByRelevance ==
    /\ apc = "rank"
    /\ \/ /\ rankResult' = "returned"
          /\ chatHistory' = AnalysisTurns(1)
          /\ analyzedCases' = caseTexts
          /\ sent' = Append(sent, Sent("done", Cardinality(DOMAIN cachedSummaries.entries)))
          /\ apc' = "ended"
       \/ /\ rankResult' = "thrown"
          /\ Catch
          /\ UNCHANGED <<analyzedCases, chatHistory>>
    /\ UNCHANGED <<hasFilters, count, found, cases, caseTexts, cachedSummaries>>
    /\ UNCHANGED <<summariesRun, runPc, chatPc, chatLog, llmCalls>>
    /\ UNCHANGED <<authVars, fetchVars, refreshedTok, parked, itemVars, searchVars, dlVars,
                   sumVars>>

AnalyzeNext ==
    \/ doSearch
    \/ doSearch_retry
    \/ trimAndDedup
    \/ searchDone
    \/ forHead
    \/ whileHead
    \/ getCaseHTML_ok
    \/ getCaseHTML_throw
    \/ afterWhile
    \/ failureCooldown
    \/ baseDelay
    \/ periodicCooldown
    \/ fetchDone
    \/ summarizeAll_load
    \/ summarizeAll_allSettled
    \/ summarizeAll_saveSummaries
    \/ summarizeDone
    \/ rankByRelevance

AnalyzeSpec == AnalyzeInit /\ [][AnalyzeNext]_vars

----------------------------------------------------------------------------
(* src/server.js with src/download.js and src/src/auth.js: the analyze run  *)
(* whose getCaseHTML calls run authenticatedRequest                         *)

Msg401 == <<"c", "o", "d", "e", " ", "4", "0", "1">>
Msg403 == <<"c", "o", "d", "e", " ", "4", "0", "3">>
MsgCreds == <<"m", "u", "s", "t", " ", "b", "e", " ", "s", "e", "t">>
MsgNoToken == <<"N", "o", " ", "t", "o", "k", "e", "n">>
MsgNetwork == <<"E", "C", "O", "N", "N", "R", "E", "S", "E", "T">>
MsgWrite == <<"E", "A", "C", "C", "E", "S">>

\* err.message of what authenticatedRequest threw: axios names the status
\* ('Request failed with status code 409'); without a response it is the
\* message of getCaseHTML's own Error, of login's Error, or of the network or
\* file-system error
messageOf(err) ==
    CASE err.status = 409 -> Msg409
      [] err.status = 401 -> Msg401
      [] err.status = 403 -> Msg403
      [] err.status = 500 -> Msg500
      [] err.origin \in {"fn1", "fn2"} -> MsgShort
      [] err.origin = "creds" -> MsgCreds
      [] err.origin = "notoken" -> MsgNoToken
      [] err.origin = "writeFile" -> MsgWrite
      [] OTHER -> MsgNetwork

BatchInit ==
    /\ apc = "search"
    /\ hasFilters \in BOOLEAN
    \* the request asks for one case
    /\ count = 1
    /\ found = <<>>
    /\ cases = <<>>
    /\ caseTexts = <<>>
    /\ sent = <<Sent("search", 0)>>
    /\ rankResult = "none"
    /\ cachedSummaries = Null
    /\ analyzedCases = <<>>
    /\ summariesFile \in {NoSummaries, Summaries([x \in {1} |-> 0])}
    /\ spc = "off"
    /\ sumCases = <<>>
    /\ cached = NoEntries
    /\ uncached = <<>>
    /\ bi = 0
    /\ sumResult = NoResult
    /\ sumRun = 0
    /\ sumCalls = 0
    /\ sumWrites = 0
    /\ sumWaits = 0
    /\ sumFailed = {}
    /\ loadedFile = NoSummaries
    /\ prevClean = FALSE
    /\ fpc = "off"
    /\ N = 0
    /\ i = 0
    /\ success = FALSE
    /\ retries = 0
    /\ consecutiveFails = 0
    /\ nCaseTexts = 0
    /\ skippedCount = -1
    /\ itemErrs = <<>>
    /\ itemWaits = <<>>
    /\ skipRun = 0
    /\ onlyRate = TRUE
    /\ nBase = 0
    /\ nPeriodic = 0
    /\ nFailCool = 0
    \* getCaseHTML runs authenticatedRequest
    /\ now = 0
    /\ creds \in BOOLEAN
    /\ sessionFile \in {NoSession, Jwt(0, (MarginMs \div 1000) + 1)}
    /\ pc = "idle"
    /\ op = "none"
    /\ stage = "none"
    /\ session = NoSession
    /\ outcome = NoOutcome
    /\ trace = <<>>
    /\ fnErrs = <<>>
    /\ startFile = NoSession
    /\ startNow = 0
    /\ nextTok = 1
    /\ opsLeft = 0
    /\ refreshedTok = 0
    /\ parked = NoRequest
    /\ itemFetches = 0
    /\ itemRelogins = 0
    /\ itemAll409 = TRUE
    /\ dpc = "off"
    /\ dlCases = <<>>
    /\ di = 0
    /\ dir = NoFiles
    /\ dlResult = NoDownload
    /\ dlReqs = 0
    /\ dlBefore = NoFiles
    /\ results = <<>>
    /\ dlLog = <<>>
    /\ downloadedCount = 0
    /\ skippedDownloads = 0
    /\ failCount = 0
    /\ chatHistory = <<>>
    /\ summariesRun = 0
    /\ runPc = [r \in 1..MaxAnalyzeRuns |-> "idle"]
    /\ chatPc = [c \in 1..MaxChats |-> "idle"]
    /\ chatLog = [c \in 1..MaxChats |-> NoChat]
    /\ llmCalls = 0
    /\ pass = 0
    /\ page = 0
    /\ tc = 0
    /\ avail = 0
    /\ searchLog = <<>>
    /\ searchWaits = 0

\* const doc = await getCaseHTML(cases[i].id): authenticatedRequest starts
getCaseHTML_request ==
    /\ fpc = "getCaseHTML"
    /\ fpc' = "awaiting"
    /\ op' = "authenticatedRequest"
    /\ stage' = "getSession"
    /\ pc' = "getSession"
    /\ session' = NoSession
    /\ outcome' = NoOutcome
    /\ trace' = <<>>
    /\ fnErrs' = <<>>
    /\ startFile' = sessionFile
    /\ startNow' = now
    /\ UNCHANGED <<now, creds, sessionFile, nextTok, opsLeft>>
    /\ UNCHANGED <<N, i, success, retries, consecutiveFails, nCaseTexts, skippedCount,
                   itemErrs, itemWaits, skipRun, onlyRate, nBase, nPeriodic, nFailCool>>
    /\ UNCHANGED runVars

\* authenticatedRequest returned: the try block; or threw: the catch block
getCaseHTML_settled ==
    /\ fpc = "awaiting"
    /\ pc = "done"
    /\ IF outcome.kind = "return"
       THEN /\ caseTexts' = Append(caseTexts, cases[i + 1])
            /\ nCaseTexts' = nCaseTexts + 1
            /\ success' = TRUE
            /\ consecutiveFails' = 0
            /\ fpc' = "while"
            /\ onlyRate' = FALSE
            /\ UNCHANGED <<retries, itemErrs, itemWaits>>
       ELSE LET message == messageOf(outcome.err) IN
            /\ retries' = retries + 1
            /\ itemErrs' = Append(itemErrs, message)
            /\ onlyRate' = (onlyRate /\ (includes(message, <<"4", "0", "9">>)
                                          \/ includes(message, <<"l", "i", "m", "i", "t">>)))
            /\ IF isRateLimit(message) /\ retries + 1 < MAX_RETRIES
               THEN /\ itemWaits' = Append(itemWaits, Wait("backoff", backoff(retries + 1)))
                    /\ fpc' = "while"
                    /\ UNCHANGED consecutiveFails
               ELSE /\ consecutiveFails' = consecutiveFails + 1
                    /\ fpc' = "afterWhile"
                    /\ UNCHANGED itemWaits
            /\ UNCHANGED <<success, nCaseTexts, caseTexts>>
    /\ UNCHANGED <<N, i, skippedCount, skipRun, nBase, nPeriodic, nFailCool>>
    /\ LET fns == SelectSeq(trace, LAMBDA e : e.ev = "fn")
           refreshes == SelectSeq(trace, LAMBDA e : e.ev = "forceRefresh")
           first == (retries = 0)
       IN  /\ itemFetches' = (IF first THEN 0 ELSE itemFetches) + Len(fns)
           /\ itemRelogins' = (IF first THEN 0 ELSE itemRelogins) + Len(refreshes)
           /\ itemAll409' = /\ (first \/ itemAll409)
                            /\ \A k \in 1..Len(fns) : fns[k].arg = 409
    /\ UNCHANGED <<searchVars, dlVars, chatVars>>
    /\ UNCHANGED <<refreshedTok, parked, sumVars, apc, hasFilters, count, found, cases,
                   sent, rankResult, cachedSummaries, analyzedCases>>
    /\ UNCHANGED authVars

BatchNext ==
    \/ doSearch
    \/ doSearch_retry
    \/ trimAndDedup
    \/ searchDone
    \/ forHead
    \/ whileHead
    \/ getCaseHTML_request
    \/ getSession_read
    \/ forceRefresh_unlink
    \/ login_creds
    \/ login_getClientIp
    \/ login_post
    \/ login_writeFile
    \/ authenticatedRequest_fn1
    \/ authenticatedRequest_fn2
    \/ getCaseHTML_settled
    \/ afterWhile
    \/ failureCooldown
    \/ baseDelay
    \/ periodicCooldown
    \/ fetchDone
    \/ summarizeAll_load
    \/ summarizeAll_allSettled
    \/ summarizeAll_saveSummaries
    \/ summarizeDone
    \/ rankByRelevance

BatchSpec == BatchInit /\ [][BatchNext]_vars

----------------------------------------------------------------------------
(* src/server.js, POST /api/analyze: the pages of doSearch *)

\* const PAGE_SIZE
PAGE_SIZE == 20

\* Math.ceil(count / PAGE_SIZE)
totalPgs == (count + PAGE_SIZE - 1) \div PAGE_SIZE

\* a searchCases call: the page asked for, the pageSize asked for, the
\* length of searchCases_ before it, and the results it answered with
Searched(q, p, size, had, got) ==
    [pass |-> q, page |-> p, pageSize |-> size, had |-> had, got |-> got]

\* the cases the remote has left for page p of PAGE_SIZE
Remaining(p) == Min(PAGE_SIZE, IF avail > (p - 1) * PAGE_SIZE
                               THEN avail - (p - 1) * PAGE_SIZE ELSE 0)

\* the ids of the results of page p: the positions in the remote's order
PageIds(p, got) == [k \in 1..got |-> (p - 1) * PAGE_SIZE + k]

SearchInit ==
    /\ apc = "pages"
    /\ hasFilters \in BOOLEAN
    /\ count \in 1..MaxTarget
    /\ found = <<>>
    /\ cases = <<>>
    /\ caseTexts = <<>>
    /\ sent = <<Sent("search", 0)>>
    /\ rankResult = "none"
    /\ cachedSummaries = Null
    /\ analyzedCases = <<>>
    /\ pass = 1
    /\ page = 1
    /\ tc = 0
    /\ avail \in 0..MaxAvail
    /\ searchLog = <<>>
    /\ searchWaits = 0
    /\ summariesFile = NoSummaries
    /\ spc = "off"
    /\ sumCases = <<>>
    /\ cached = NoEntries
    /\ uncached = <<>>
    /\ bi = 0
    /\ sumResult = NoResult
    /\ sumRun = 0
    /\ sumCalls = 0
    /\ sumWrites = 0
    /\ sumWaits = 0
    /\ sumFailed = {}
    /\ loadedFile = NoSummaries
    /\ prevClean = FALSE
    /\ fpc = "off"
    /\ N = 0
    /\ i = 0
    /\ success = FALSE
    /\ retries = 0
    /\ consecutiveFails = 0
    /\ nCaseTexts = 0
    /\ skippedCount = -1
    /\ itemErrs = <<>>
    /\ itemWaits = <<>>
    /\ skipRun = 0
    /\ onlyRate = TRUE
    /\ nBase = 0
    /\ nPeriodic = 0
    /\ nFailCool = 0
    /\ now = 0
    /\ creds = TRUE
    /\ sessionFile = NoSession
    /\ pc = "idle"
    /\ op = "none"
    /\ stage = "none"
    /\ session = NoSession
    /\ outcome = NoOutcome
    /\ trace = <<>>
    /\ fnErrs = <<>>
    /\ startFile = NoSession
    /\ startNow = 0
    /\ nextTok = 1
    /\ opsLeft = 0
    /\ refreshedTok = 0
    /\ parked = NoRequest
    /\ itemFetches = 0
    /\ itemRelogins = 0
    /\ itemAll409 = TRUE
    /\ dpc = "off"
    /\ dlCases = <<>>
    /\ di = 0
    /\ dir = NoFiles
    /\ dlResult = NoDownload
    /\ dlReqs = 0
    /\ dlBefore = NoFiles
    /\ results = <<>>
    /\ dlLog = <<>>
    /\ downloadedCount = 0
    /\ skippedDownloads = 0
    /\ failCount = 0
    /\ chatHistory = <<>>
    /\ summariesRun = 0
    /\ runPc = [r \in 1..MaxAnalyzeRuns |-> "idle"]
    /\ chatPc = [c \in 1..MaxChats |-> "idle"]
    /\ chatLog = [c \in 1..MaxChats |-> NoChat]
    /\ llmCalls = 0

\* the pass goes on after a page that reached the count or the total
doSearch_page_noBreak ==
    /\ apc = "pages"
    /\ page <= totalPgs
    /\ \/ /\ Catch
          /\ searchLog' = Append(searchLog, Searched(pass, page, PAGE_SIZE, Len(found), 0))
          /\ UNCHANGED <<found, tc, page, searchWaits>>
       \/ \E got \in {Remaining(page), IF Remaining(page) > 0 THEN Remaining(page) - 1 ELSE 0} :
            /\ searchLog' = Append(searchLog, Searched(pass, page, PAGE_SIZE, Len(found), got))
            /\ tc' = avail
            /\ found' = found \o PageIds(page, got)
            /\ searchWaits' = searchWaits + 1
            /\ IF page + 1 <= totalPgs
               THEN /\ page' = page + 1
                    /\ UNCHANGED apc
               ELSE /\ apc' = "return"
                    /\ UNCHANGED page
            /\ UNCHANGED sent
    /\ UNCHANGED <<pass, avail>>
    /\ UNCHANGED <<hasFilters, count, cases, caseTexts, rankResult, cachedSummaries,
                   analyzedCases>>
    /\ UNCHANGED <<authVars, fetchVars, refreshedTok, parked, itemVars, dlVars, chatVars,
                   sumVars>>

\* one turn of the for loop of doSearch: await searchCases(keywords, { page: p,
\* pageSize: PAGE_SIZE, ... }) throws or answers; tc = searchResult.totalCount;
\* searchCases_.push(...searchResult.results); break when the count or the
\* total is reached, otherwise the 300 ms wait and p++
doSearch_page ==
    /\ apc = "pages"
    /\ page <= totalPgs
    /\ \/ /\ Catch
          /\ searchLog' = Append(searchLog, Searched(pass, page, PAGE_SIZE, Len(found), 0))
          /\ UNCHANGED <<found, tc, page, searchWaits>>
       \/ \E got \in {Remaining(page), IF Remaining(page) > 0 THEN Remaining(page) - 1 ELSE 0} :
            /\ searchLog' = Append(searchLog, Searched(pass, page, PAGE_SIZE, Len(found), got))
            /\ tc' = avail
            /\ found' = found \o PageIds(page, got)
            /\ IF Len(found) + got >= count \/ Len(found) + got >= avail
               THEN /\ apc' = "return"
                    /\ UNCHANGED <<page, searchWaits>>
               ELSE /\ searchWaits' = searchWaits + 1
                    /\ IF page + 1 <= totalPgs
                       THEN /\ page' = page + 1
                            /\ UNCHANGED apc
                       ELSE /\ apc' = "return"
                            /\ UNCHANGED page
            /\ UNCHANGED sent
    /\ UNCHANGED <<pass, avail>>
    /\ UNCHANGED <<hasFilters, count, cases, caseTexts, rankResult, cachedSummaries,
                   analyzedCases>>
    /\ UNCHANGED <<authVars, fetchVars, refreshedTok, parked, itemVars, dlVars, chatVars,
                   sumVars>>

\* the search is made again whenever the first pass found nothing
doSearch_return_anyEmpty ==
    /\ apc = "return"
    /\ IF pass = 1 /\ Len(found) = 0
       THEN /\ sent' = Append(sent, Sent("search", 0))
            /\ pass' = 2
            /\ page' = 1
            /\ tc' = 0
            /\ avail' \in 0..MaxAvail
            /\ apc' = "pages"
       ELSE /\ apc' = "trim"
            /\ UNCHANGED <<sent, pass, page, tc, avail>>
    /\ UNCHANGED <<found, searchLog, searchWaits>>
    /\ UNCHANGED <<hasFilters, count, cases, caseTexts, rankResult, cachedSummaries,
                   analyzedCases>>
    /\ UNCHANGED <<authVars, fetchVars, refreshedTok, parked, itemVars, dlVars, chatVars,
                   sumVars>>

\* doSearch returned: cases = searchData.results; if (cases.length === 0 &&
\* hasFilters) { send(...); searchData = await doSearch({}, false) }
doSearch_return ==
    /\ apc = "return"
    /\ IF pass = 1 /\ Len(found) = 0 /\ hasFilters
       THEN /\ sent' = Append(sent, Sent("search", 0))
            /\ pass' = 2
            /\ page' = 1
            /\ tc' = 0
            /\ avail' \in 0..MaxAvail
            /\ apc' = "pages"
       ELSE /\ apc' = "trim"
            /\ UNCHANGED <<sent, pass, page, tc, avail>>
    /\ UNCHANGED <<found, searchLog, searchWaits>>
    /\ UNCHANGED <<hasFilters, count, cases, caseTexts, rankResult, cachedSummaries,
                   analyzedCases>>
    /\ UNCHANGED <<authVars, fetchVars, refreshedTok, parked, itemVars, dlVars, chatVars,
                   sumVars>>

SearchNext ==
    \/ doSearch_page
    \/ doSearch_return
    \/ trimAndDedup

SearchSpec == SearchInit /\ [][SearchNext]_vars

----------------------------------------------------------------------------

(* src/download.js (src/unnamed/part_004): downloadMultipleCases *)

\* the case ids of the model: two ids of the same length
CaseIds == {<<"7", "1">>, <<"7", "2">>}

\* the lists given to downloadMultipleCases
DownloadLists == UNION {[1..n -> CaseIds] : n \in 0..MaxDownloads}

\* String.prototype.endsWith
endsWith(str, suffix) ==
    /\ Len(str) >= Len(suffix)
    /\ SubSeq(str, Len(str) - Len(suffix) + 1, Len(str)) = suffix

\* `Case_${caseId}_${safeTitle}.pdf`, the title being the case id
pdfFileName(caseId) ==
    <<"C", "a", "s", "e", "_">> \o caseId \o <<"_">> \o caseId \o <<".", "p", "d", "f">>

\* outputPath.replace('.pdf', '.txt')
txtPath(outputPath) == SubSeq(outputPath, 1, Len(outputPath) - 4) \o <<".", "t", "x", "t">>

\* files.find(f => f.includes(caseId) && f.endsWith('.pdf')); <<>> is null
findExistingPdf(caseId, files) ==
    LET matches == {f \in DOMAIN files :
                       includes(f, caseId) /\ endsWith(f, <<".", "p", "d", "f">>)}
    IN  IF matches = {} THEN <<>> ELSE CHOOSE f \in matches : TRUE

\* the output directories a run may start with: PDFs downloaded earlier
StartDirs == {[f \in S |-> 1] : S \in SUBSET {pdfFileName(c) : c \in CaseIds}}

\* the directory with the file written or created
PutFile(files, name, bytes) ==
    [f \in DOMAIN files \cup {name} |-> IF f = name THEN bytes ELSE files[f]]

\* fs.unlink(dest)
Unlink(files, name) == [f \in DOMAIN files \ {name} |-> files[f]]

\* the case of the running downloadCase call
dlCase == dlCases[di + 1]

\* the return value of the catch block of downloadCase
FailedDownload(caseId) == [success |-> FALSE, skipped |-> FALSE, id |-> caseId]

\* what a finished downloadCase call did: whether a PDF of the case was
\* there when it started, its network requests, whether it left the
\* directory as it was, the PDF findExistingPdf finds after it, and whether
\* the rate-limit delay followed it
Did(caseId, existed, reqs, same, after, delayed) ==
    [id |-> caseId, existed |-> existed, reqs |-> reqs, dirSame |-> same,
     pdfAfter |-> after, delayed |-> delayed]

DownloadInit ==
    /\ fpc = "off"
    /\ N = 0
    /\ i = 0
    /\ success = FALSE
    /\ retries = 0
    /\ consecutiveFails = 0
    /\ nCaseTexts = 0
    /\ skippedCount = -1
    /\ itemErrs = <<>>
    /\ itemWaits = <<>>
    /\ skipRun = 0
    /\ onlyRate = TRUE
    /\ nBase = 0
    /\ nPeriodic = 0
    /\ nFailCool = 0
    /\ now = 0
    /\ creds = TRUE
    /\ sessionFile = NoSession
    /\ pc = "idle"
    /\ op = "none"
    /\ stage = "none"
    /\ session = NoSession
    /\ outcome = NoOutcome
    /\ trace = <<>>
    /\ fnErrs = <<>>
    /\ startFile = NoSession
    /\ startNow = 0
    /\ nextTok = 1
    /\ opsLeft = 0
    /\ refreshedTok = 0
    /\ parked = NoRequest
    /\ itemFetches = 0
    /\ itemRelogins = 0
    /\ itemAll409 = TRUE
    /\ dpc = "for"
    /\ dlCases \in DownloadLists
    /\ di = 0
    /\ dir \in StartDirs
    /\ dlResult = NoDownload
    /\ dlReqs = 0
    /\ dlBefore = NoFiles
    /\ results = <<>>
    /\ dlLog = <<>>
    /\ downloadedCount = 0
    /\ skippedDownloads = 0
    /\ failCount = 0
    /\ chatHistory = <<>>
    /\ summariesRun = 0
    /\ runPc = [r \in 1..MaxAnalyzeRuns |-> "idle"]
    /\ chatPc = [c \in 1..MaxChats |-> "idle"]
    /\ chatLog = [c \in 1..MaxChats |-> NoChat]
    /\ llmCalls = 0
    /\ pass = 0
    /\ page = 0
    /\ tc = 0
    /\ avail = 0
    /\ searchLog = <<>>
    /\ searchWaits = 0
    /\ spc = "off"
    /\ sumCases = <<>>
    /\ summariesFile = NoSummaries
    /\ cached = NoEntries
    /\ uncached = <<>>
    /\ bi = 0
    /\ sumResult = NoResult
    /\ sumRun = 0
    /\ sumCalls = 0
    /\ sumWrites = 0
    /\ sumWaits = 0
    /\ sumFailed = {}
    /\ loadedFile = NoSummaries
    /\ prevClean = FALSE
    /\ apc = "off"
    /\ hasFilters = FALSE
    /\ count = 0
    /\ found = <<>>
    /\ cases = <<>>
    /\ caseTexts = <<>>
    /\ sent = <<>>
    /\ rankResult = "none"
    /\ cachedSummaries = Null
    /\ analyzedCases = <<>>

\* for (let i = 0; i < cases.length; i++): downloadCase(c.id, ...) is called:
\* fs.mkdirSync(outputDir); existing = findExistingPdf(caseId, outputDir);
\* if (existing) return { success: true, skipped: true, ... }
downloadMultipleCases_for ==
    /\ dpc = "for"
    /\ IF di < Len(dlCases)
       THEN /\ dlReqs' = 0
            /\ dlBefore' = dir
            /\ IF findExistingPdf(dlCase, dir) # <<>>
               THEN /\ dlResult' = [success |-> TRUE, skipped |-> TRUE, id |-> dlCase]
                    /\ dpc' = "result"
               ELSE /\ dpc' = "getCaseHTML"
                    /\ UNCHANGED dlResult
       ELSE /\ dpc' = "returned"
            /\ UNCHANGED <<dlReqs, dlBefore, dlResult>>
    /\ UNCHANGED <<dlCases, di, dir, results, dlLog, downloadedCount, skippedDownloads,
                   failCount>>
    /\ UNCHANGED <<authVars, fetchVars, refreshedTok, parked, itemVars, searchVars,
                   chatVars, sumVars, anaVars>>

\* const doc = await getCaseHTML(caseId, ...): returns or throws
downloadCase_getCaseHTML ==
    /\ dpc = "getCaseHTML"
    /\ dlReqs' = dlReqs + 1
    /\ \/ /\ dpc' = "generatePDF"
          /\ UNCHANGED dlResult
       \/ /\ dpc' = "result"
          /\ dlResult' = FailedDownload(dlCase)
    /\ UNCHANGED <<dlCases, di, dir, dlBefore, results, dlLog, downloadedCount,
                   skippedDownloads, failCount>>
    /\ UNCHANGED <<authVars, fetchVars, refreshedTok, parked, itemVars, searchVars,
                   chatVars, sumVars, anaVars>>

\* const s3Url = await generatePDF(fullHtml, pdfFileName): returns the URL or throws
downloadCase_generatePDF ==
    /\ dpc = "generatePDF"
    /\ dlReqs' = dlReqs + 1
    /\ \/ /\ dpc' = "downloadFile"
          /\ UNCHANGED dlResult
       \/ /\ dpc' = "result"
          /\ dlResult' = FailedDownload(dlCase)
    /\ UNCHANGED <<dlCases, di, dir, dlBefore, results, dlLog, downloadedCount,
                   skippedDownloads, failCount>>
    /\ UNCHANGED <<authVars, fetchVars, refreshedTok, parked, itemVars, searchVars,
                   chatVars, sumVars, anaVars>>

\* await downloadFile(s3Url, outputPath): fs.createWriteStream(dest) creates
\* the file; the GET (after a redirect or not) answers 200 and the body is
\* piped into the file, or answers another status and the promise is
\* rejected, or fails and fs.unlink(dest) precedes the rejection
downloadCase_downloadFile ==
    /\ dpc = "downloadFile"
    /\ \E redirects \in {0, 1} :
         /\ dlReqs' = dlReqs + 1 + redirects
         /\ \/ /\ dir' = PutFile(dir, pdfFileName(dlCase), 1)
               /\ dpc' = "writeFile"
               /\ UNCHANGED dlResult
            \/ /\ dir' = PutFile(dir, pdfFileName(dlCase), 0)
               /\ dpc' = "result"
               /\ dlResult' = FailedDownload(dlCase)
            \/ /\ dir' = Unlink(dir, pdfFileName(dlCase))
               /\ dpc' = "result"
               /\ dlResult' = FailedDownload(dlCase)
    /\ UNCHANGED <<dlCases, di, dlBefore, results, dlLog, downloadedCount,
                   skippedDownloads, failCount>>
    /\ UNCHANGED <<authVars, fetchVars, refreshedTok, parked, itemVars, searchVars,
                   chatVars, sumVars, anaVars>>

\* await fsPromises.writeFile(txtPath, ...); await fsPromises.stat(outputPath);
\* return { success: true, skipped: false, ... }; a throw goes to the catch
downloadCase_writeFile ==
    /\ dpc = "writeFile"
    /\ dpc' = "result"
    /\ \/ /\ dir' = PutFile(dir, txtPath(pdfFileName(dlCase)), 1)
          /\ dlResult' = [success |-> TRUE, skipped |-> FALSE, id |-> dlCase]
       \/ /\ dir' = dir
          /\ dlResult' = FailedDownload(dlCase)
    /\ UNCHANGED <<dlCases, di, dlReqs, dlBefore, results, dlLog, downloadedCount,
                   skippedDownloads, failCount>>
    /\ UNCHANGED <<authVars, fetchVars, refreshedTok, parked, itemVars, searchVars,
                   chatVars, sumVars, anaVars>>

\* the delay after every case but the last, skipped or not
downloadMultipleCases_result_delayAlways ==
    /\ dpc = "result"
    /\ results' = Append(results, dlResult)
    /\ downloadedCount' = downloadedCount + (IF dlResult.success /\ ~dlResult.skipped THEN 1 ELSE 0)
    /\ skippedDownloads' = skippedDownloads + (IF dlResult.success /\ dlResult.skipped THEN 1 ELSE 0)
    /\ failCount' = failCount + (IF dlResult.success THEN 0 ELSE 1)
    /\ dlLog' = Append(dlLog, Did(dlCase, pdfFileName(dlCase) \in DOMAIN dlBefore, dlReqs,
                                  dir = dlBefore, findExistingPdf(dlCase, dir),
                                  di < Len(dlCases) - 1))
    /\ di' = di + 1
    /\ dpc' = "for"
    /\ UNCHANGED <<dlCases, dir, dlResult, dlReqs, dlBefore>>
    /\ UNCHANGED <<authVars, fetchVars, refreshedTok, parked, itemVars, searchVars,
                   chatVars, sumVars, anaVars>>

\* downloadCase returned: results.push(result); the three counts;
\* if (i < cases.length - 1 && !result.skipped) await the delay; i++
downloadMultipleCases_result ==
    /\ dpc = "result"
    /\ results' = Append(results, dlResult)
    /\ downloadedCount' = downloadedCount + (IF dlResult.success /\ ~dlResult.skipped THEN 1 ELSE 0)
    /\ skippedDownloads' = skippedDownloads + (IF dlResult.success /\ dlResult.skipped THEN 1 ELSE 0)
    /\ failCount' = failCount + (IF dlResult.success THEN 0 ELSE 1)
    /\ dlLog' = Append(dlLog, Did(dlCase, pdfFileName(dlCase) \in DOMAIN dlBefore, dlReqs,
                                  dir = dlBefore, findExistingPdf(dlCase, dir),
                                  di < Len(dlCases) - 1 /\ ~dlResult.skipped))
    /\ di' = di + 1
    /\ dpc' = "for"
    /\ UNCHANGED <<dlCases, dir, dlResult, dlReqs, dlBefore>>
    /\ UNCHANGED <<authVars, fetchVars, refreshedTok, parked, itemVars, searchVars,
                   chatVars, sumVars, anaVars>>

DownloadNext ==
    \/ downloadMultipleCases_for
    \/ downloadCase_getCaseHTML
    \/ downloadCase_generatePDF
    \/ downloadCase_downloadFile
    \/ downloadCase_writeFile
    \/ downloadMultipleCases_result

DownloadSpec == DownloadInit /\ [][DownloadNext]_vars

----------------------------------------------------------------------------

(* src/server.js: the module state under analyze runs and chat requests *)

ChatInit ==
    /\ fpc = "off"
    /\ N = 0
    /\ i = 0
    /\ success = FALSE
    /\ retries = 0
    /\ consecutiveFails = 0
    /\ nCaseTexts = 0
    /\ skippedCount = -1
    /\ itemErrs = <<>>
    /\ itemWaits = <<>>
    /\ skipRun = 0
    /\ onlyRate = TRUE
    /\ nBase = 0
    /\ nPeriodic = 0
    /\ nFailCool = 0
    /\ now = 0
    /\ creds = TRUE
    /\ sessionFile = NoSession
    /\ pc = "idle"
    /\ op = "none"
    /\ stage = "none"
    /\ session = NoSession
    /\ outcome = NoOutcome
    /\ trace = <<>>
    /\ fnErrs = <<>>
    /\ startFile = NoSession
    /\ startNow = 0
    /\ nextTok = 1
    /\ opsLeft = 0
    /\ refreshedTok = 0
    /\ parked = NoRequest
    /\ itemFetches = 0
    /\ itemRelogins = 0
    /\ itemAll409 = TRUE
    /\ dpc = "off"
    /\ dlCases = <<>>
    /\ di = 0
    /\ dir = NoFiles
    /\ dlResult = NoDownload
    /\ dlReqs = 0
    /\ dlBefore = NoFiles
    /\ results = <<>>
    /\ dlLog = <<>>
    /\ downloadedCount = 0
    /\ skippedDownloads = 0
    /\ failCount = 0
    /\ chatHistory = <<>>
    /\ summariesRun = 0
    /\ runPc = [r \in 1..MaxAnalyzeRuns |-> "idle"]
    /\ chatPc = [c \in 1..MaxChats |-> "idle"]
    /\ chatLog = [c \in 1..MaxChats |-> NoChat]
    /\ llmCalls = 0
    /\ pass = 0
    /\ page = 0
    /\ tc = 0
    /\ avail = 0
    /\ searchLog = <<>>
    /\ searchWaits = 0
    /\ spc = "off"
    /\ sumCases = <<>>
    /\ summariesFile = NoSummaries
    /\ cached = NoEntries
    /\ uncached = <<>>
    /\ bi = 0
    /\ sumResult = NoResult
    /\ sumRun = 0
    /\ sumCalls = 0
    /\ sumWrites = 0
    /\ sumWaits = 0
    /\ sumFailed = {}
    /\ loadedFile = NoSummaries
    /\ prevClean = FALSE
    /\ apc = "off"
    /\ hasFilters = FALSE
    /\ count = 0
    /\ found = <<>>
    /\ cases = <<>>
    /\ caseTexts = <<>>
    /\ sent = <<>>
    /\ rankResult = "none"
    /\ cachedSummaries = Null
    /\ analyzedCases = <<>>

\* POST /api/analyze, from the request to await summarizeAll(...): the
\* validation, the search and the fetch loop touch no module state; the run
\* gets to the summaries or ends before (bad input, no case, a throw)
analyze_fetch ==
    \E r \in 1..MaxAnalyzeRuns :
        /\ runPc[r] = "idle"
        /\ \E next \in {"summarizeAll", "ended"} : runPc' = [runPc EXCEPT ![r] = next]
        /\ UNCHANGED <<chatHistory, summariesRun, chatPc, chatLog, llmCalls>>
        /\ UNCHANGED <<authVars, fetchVars, refreshedTok, parked, itemVars, searchVars,
                       dlVars, sumVars, anaVars>>

\* await summarizeAll(...) returns: cachedSummaries = currentSummaries and the
\* run goes on to await rankByRelevance(...); or it throws
analyze_summarizeAll ==
    \E r \in 1..MaxAnalyzeRuns :
        /\ runPc[r] = "summarizeAll"
        /\ \/ /\ cachedSummaries' = [null |-> FALSE, entries |-> [x \in {1} |-> r]]
              /\ summariesRun' = r
              /\ runPc' = [runPc EXCEPT ![r] = "rankByRelevance"]
           \/ /\ runPc' = [runPc EXCEPT ![r] = "ended"]
              /\ UNCHANGED <<cachedSummaries, summariesRun>>
        /\ UNCHANGED <<chatHistory, chatPc, chatLog, llmCalls>>
        /\ UNCHANGED <<apc, hasFilters, count, found, cases, caseTexts, sent, rankResult,
                       analyzedCases>>
        /\ UNCHANGED <<authVars, fetchVars, refreshedTok, parked, itemVars, searchVars,
                       dlVars, sumVars>>

\* await rankByRelevance(...) returns: chatHistory = [] and its two pushes,
\* analyzedCases = caseTexts, 'done'; or it throws
analyze_rankByRelevance ==
    \E r \in 1..MaxAnalyzeRuns :
        /\ runPc[r] = "rankByRelevance"
        /\ runPc' = [runPc EXCEPT ![r] = "ended"]
        /\ \/ /\ chatHistory' = AnalysisTurns(r)
              /\ analyzedCases' = <<1>>
           \/ UNCHANGED <<chatHistory, analyzedCases>>
        /\ UNCHANGED <<summariesRun, chatPc, chatLog, llmCalls>>
        /\ UNCHANGED <<apc, hasFilters, count, found, cases, caseTexts, sent, rankResult,
                       cachedSummaries>>
        /\ UNCHANGED <<authVars, fetchVars, refreshedTok, parked, itemVars, searchVars,
                       dlVars, sumVars>>

\* the chat endpoint without the test of cachedSummaries
chat_message_noTest ==
    \E c \in 1..MaxChats, message \in BOOLEAN :
        /\ chatPc[c] = "idle"
        /\ IF ~message
           THEN /\ chatPc' = [chatPc EXCEPT ![c] = "answered"]
                /\ chatLog' = [chatLog EXCEPT ![c] =
                      [message |-> FALSE, sawNull |-> cachedSummaries.null,
                       answer |-> "message is required", called |-> FALSE,
                       pushed |-> FALSE]]
                /\ UNCHANGED llmCalls
           ELSE /\ chatPc' = [chatPc EXCEPT ![c] = "awaiting"]
                /\ chatLog' = [chatLog EXCEPT ![c] =
                      [message |-> TRUE, sawNull |-> cachedSummaries.null,
                       answer |-> "none", called |-> TRUE, pushed |-> FALSE]]
                /\ llmCalls' = llmCalls + 1
        /\ UNCHANGED <<chatHistory, summariesRun, runPc>>
        /\ UNCHANGED <<authVars, fetchVars, refreshedTok, parked, itemVars, searchVars,
                       dlVars, sumVars, anaVars>>

\* POST /api/chat/message up to its await: 400 'message is required', 400
\* 'Run analysis first', or chat(cachedSummaries, chatHistory, message) is called
chat_message ==
    \E c \in 1..MaxChats, message \in BOOLEAN :
        /\ chatPc[c] = "idle"
        /\ IF ~message
           THEN /\ chatPc' = [chatPc EXCEPT ![c] = "answered"]
                /\ chatLog' = [chatLog EXCEPT ![c] =
                      [message |-> FALSE, sawNull |-> cachedSummaries.null,
                       answer |-> "message is required", called |-> FALSE,
                       pushed |-> FALSE]]
                /\ UNCHANGED llmCalls
           ELSE IF cachedSummaries.null
           THEN /\ chatPc' = [chatPc EXCEPT ![c] = "answered"]
                /\ chatLog' = [chatLog EXCEPT ![c] =
                      [message |-> TRUE, sawNull |-> TRUE,
                       answer |-> "Run analysis first", called |-> FALSE,
                       pushed |-> FALSE]]
                /\ UNCHANGED llmCalls
           ELSE /\ chatPc' = [chatPc EXCEPT ![c] = "awaiting"]
                /\ chatLog' = [chatLog EXCEPT ![c] =
                      [message |-> TRUE, sawNull |-> FALSE, answer |-> "none",
                       called |-> TRUE, pushed |-> FALSE]]
                /\ llmCalls' = llmCalls + 1
        /\ UNCHANGED <<chatHistory, summariesRun, runPc>>
        /\ UNCHANGED <<authVars, fetchVars, refreshedTok, parked, itemVars, searchVars,
                       dlVars, sumVars, anaVars>>

\* await chat(...) returns: the two pushes and res.json({ type: 'chat' });
\* or it throws: res.status(500)
chat_reply ==
    \E c \in 1..MaxChats :
        /\ chatPc[c] = "awaiting"
        /\ chatPc' = [chatPc EXCEPT ![c] = "answered"]
        /\ \/ /\ chatHistory' = chatHistory \o ChatTurns(c)
              /\ chatLog' = [chatLog EXCEPT ![c].answer = "chat", ![c].pushed = TRUE]
           \/ /\ chatLog' = [chatLog EXCEPT ![c].answer = "error"]
              /\ UNCHANGED chatHistory
        /\ UNCHANGED <<summariesRun, runPc, llmCalls>>
        /\ UNCHANGED <<authVars, fetchVars, refreshedTok, parked, itemVars, searchVars,
                       dlVars, sumVars, anaVars>>

ChatNext ==
    \/ analyze_fetch
    \/ analyze_summarizeAll
    \/ analyze_rankByRelevance
    \/ chat_message
    \/ chat_reply

ChatSpec == ChatInit /\ [][ChatNext]_vars

----------------------------------------------------------------------------

(* Properties of src/src/auth.js *)

\* positions of the events named e in the trace of the running call
At(e) == {k \in 1..Len(trace) : trace[k].ev = e}

\* the events a network request of the session manager leaves in the trace
NetEvents == {"getClientIp", "post"}

\* C1: authenticatedRequest(fn) calls fn at most twice and forceRefresh() at
\* most once; a second call of fn comes after the forceRefresh(), and the
\* forceRefresh() comes right after the first call of fn failed with 401, 403
\* or 409.
C1_AtMostOneRefreshRetry ==
    op = "authenticatedRequest" =>
        /\ Cardinality(At("fn")) <= 2
        /\ Cardinality(At("forceRefresh")) <= 1
        /\ \A j, k \in At("fn") :
              j < k => \E m \in At("forceRefresh") : j < m /\ m < k
        /\ \A m \in At("forceRefresh") :
              /\ m - 1 \in At("fn")
              /\ \A k \in At("fn") : k >= m - 1
              /\ trace[m - 1].arg \in {401, 403, 409}

\* C1 witness: a call that ended after a refresh and a second call of fn.
C1_Witness ==
    /\ op = "authenticatedRequest"
    /\ pc = "done"
    /\ Cardinality(At("fn")) = 2
    /\ Cardinality(At("forceRefresh")) = 1

\* C2: when the first call of fn fails with a status other than 401/403/409,
\* that error reaches the caller and there is neither a refresh nor a second
\* call; when the second call of fn fails, its error reaches the caller and
\* there is no further refresh or call, whatever its status.
C2_FailuresPropagateUnchanged ==
    (op = "authenticatedRequest" /\ pc = "done" /\ Len(fnErrs) >= 1) =>
        /\ fnErrs[1].status \notin {401, 403, 409} =>
              /\ outcome = Thrown(fnErrs[1])
              /\ fnErrs[1].origin = "fn1"
              /\ At("forceRefresh") = {}
              /\ Cardinality(At("fn")) = 1
        /\ Len(fnErrs) >= 2 =>
              /\ Len(fnErrs) = 2
              /\ outcome = Thrown(fnErrs[2])
              /\ fnErrs[2].origin = "fn2"
              /\ Cardinality(At("forceRefresh")) = 1
              /\ Cardinality(At("fn")) = 2

\* C2 witness: the second call failed with an authorization-class status again.
C2_Witness ==
    /\ op = "authenticatedRequest"
    /\ pc = "done"
    /\ Len(fnErrs) = 2
    /\ fnErrs[2].status = 409

\* the persisted session getSession() found has expiry beyond now + 5 min
C3_Usable == 
    /\ startFile.kind = "session"
    /\ startFile.dec
    /\ startFile.exp * 1000 > startNow + 300000

\* C3: getSession() returns the persisted session unchanged, with no network
\* request and no login, when its expiry is beyond now + 5 min; in every other
\* case (expiry equal to now + 5 min or earlier, no file, unreadable file,
\* undecodable token) it calls login exactly once. A session returned without
\* a login has its expiry strictly beyond now + 5 min.
C3_GetSessionFreshOrOneLogin ==
    (op = "getSession" /\ pc = "done") =>
        /\ C3_Usable =>
              /\ outcome = Returned(startFile, 0)
              /\ sessionFile = startFile
              /\ \A k \in 1..Len(trace) : trace[k].ev \notin NetEvents
              /\ At("login") = {}
        /\ ~C3_Usable => Cardinality(At("login")) = 1
        /\ (outcome.kind = "return" /\ At("login") = {}) =>
              outcome.session.exp * 1000 > startNow + 300000

\* C3 witness: the persisted expiry equals now + 5 min exactly, and getSession
\* logged in.
C3_Witness ==
    /\ op = "getSession"
    /\ pc = "done"
    /\ startFile.kind = "session"
    /\ startFile.dec
    /\ startFile.exp * 1000 = startNow + 300000
    /\ startNow > 0
    /\ Cardinality(At("login")) = 1

C5_FileAtLogin == IF At("forceRefresh") = {} THEN startFile ELSE NoSession

\* C5: a login() that finds the credentials unset throws before any network
\* request, and a login() whose answer carries no token throws; either way
\* nothing is written to the session file, no further login is attempted and
\* the error is what the caller of getSession() / forceRefresh() gets.
C5_LoginFailureIsFatal ==
    /\ (At("login") # {} /\ ~creds) =>
          /\ pc = "done"
          /\ trace[Len(trace)].ev = "login"
          /\ \A k \in 1..Len(trace) : trace[k].ev \notin NetEvents \cup {"writeFile"}
          /\ Cardinality(At("login")) = 1
          /\ outcome = Thrown(Err("creds", 0))
          /\ sessionFile = C5_FileAtLogin
    /\ \A k \in At("post") : trace[k].arg = 204 =>
          /\ pc = "done"
          /\ k = Len(trace)
          /\ \A m \in At("login") \cup At("writeFile") : m < k - 2
                \/ (m = k - 2 /\ trace[m].ev = "login")
          /\ outcome = Thrown(Err("notoken", 0))
          /\ sessionFile = C5_FileAtLogin

\* C5 witness: getSession() failed on an answer without a token while a stale
\* session was persisted.
C5_Witness ==
    /\ op = "getSession"
    /\ pc = "done"
    /\ startFile.kind = "session"
    /\ trace[Len(trace)] = Ev("post", 204)

----------------------------------------------------------------------------
(* Properties of the fetch loop *)

\* the message is rate-limit-classified: it contains '409' or 'limit'
RateLimited(m) ==
    \/ \E k \in 1..(Len(m) - 2) : SubSeq(m, k, k + 2) = <<"4", "0", "9">>
    \/ \E k \in 1..(Len(m) - 4) : SubSeq(m, k, k + 4) = <<"l", "i", "m", "i", "t">>

\* the while loop of cases[i] is over and the next item has not started
ItemOver ==
    \/ fpc \in {"afterWhile", "failures", "base", "periodic"}
    \/ fpc \in {"for", "fetch_done"} /\ i >= 1

\* the waits of the given kind among the waits of the current item, in order
WaitsOf(w) == SelectSeq(itemWaits, LAMBDA x : x.why = w)

\* C6: an item whose every fetch throws a rate-limit-classified error is
\* attempted exactly 3 times, with a wait of 10000 ms after the first failure,
\* of 20000 ms after the second and no backoff wait after the third, and is
\* skipped; when every fetch of the run throws such an error, the final
\* skipped count is N.
C6_RateLimitedItemThreeAttempts ==
    /\ (ItemOver /\ ~success /\ \A k \in 1..Len(itemErrs) : RateLimited(itemErrs[k])) =>
          /\ Len(itemErrs) = 3
          /\ WaitsOf("backoff") = <<Wait("backoff", 10000), Wait("backoff", 20000)>>
          /\ SubSeq(itemWaits, 1, 2) = WaitsOf("backoff")
    /\ onlyRate => nCaseTexts = 0
    /\ (fpc = "fetch_done" /\ onlyRate) => skippedCount = N

\* C6 witness: a run of several items, all rate limited on every attempt, is over.
C6_Witness ==
    /\ fpc = "fetch_done"
    /\ onlyRate
    /\ N >= 2
    /\ skippedCount = N
    /\ Len(itemErrs) = 3

\* C7: a fetch failure that is not rate-limit-classified ends the attempts of
\* its item at once: the loop leaves the while block with the item unread,
\* without a wait, and consecutiveFails grows by exactly one; so an error that
\* is not the last of its item is always rate-limit-classified.
C7_PermanentFailureEndsItem ==
    /\ [][(fpc = "getCaseHTML" /\ Len(itemErrs') = Len(itemErrs) + 1
              /\ ~RateLimited(itemErrs'[Len(itemErrs')])) =>
            /\ fpc' = "afterWhile"
            /\ ~success'
            /\ nCaseTexts' = nCaseTexts
            /\ itemWaits' = itemWaits
            /\ consecutiveFails' = consecutiveFails + 1]_vars
    /\ [](\A k \in 1..(Len(itemErrs) - 1) : RateLimited(itemErrs[k]))
    /\ []((ItemOver /\ ~success) => Len(WaitsOf("backoff")) <= Len(itemErrs) - 1)

\* C7 witness: an item ended on a permanent failure on its second attempt,
\* with one attempt left.
C7_Witness ==
    /\ fpc = "afterWhile"
    /\ Len(itemErrs) = 2
    /\ retries = 2
    /\ ~RateLimited(itemErrs[2])
    /\ consecutiveFails >= 2

\* C8: the 30000 ms cooldown happens after an item exactly when that item is
\* the fifth skipped in a row since the last success or cooldown; it happens
\* once, right after the item's attempts and before any other wait, and
\* consecutiveFails is 0 after it.
C8_CooldownAfterFiveSkips ==
    /\ skipRun <= 5
    /\ (fpc \in {"base", "periodic"} \/ (fpc \in {"for", "fetch_done"} /\ i >= 1)) =>
          /\ (skipRun = 5) <=> (WaitsOf("failures") # <<>>)
          /\ Len(WaitsOf("failures")) <= 1
          /\ skipRun = 5 =>
                /\ itemWaits[Len(WaitsOf("backoff")) + 1] = Wait("failures", 30000)
                /\ consecutiveFails = 0
    /\ fpc \in {"while", "getCaseHTML", "afterWhile", "failures"} =>
          WaitsOf("failures") = <<>>

\* C8 witness: the cooldown was taken after the fifth skipped item, which was
\* preceded by a success.
C8_Witness ==
    /\ fpc = "base"
    /\ skipRun = 5
    /\ nCaseTexts >= 1
    /\ WaitsOf("failures") = <<Wait("failures", 30000)>>
    /\ consecutiveFails = 0

\* C9: right after an item is fetched, on its first attempt or on a retry,
\* consecutiveFails is 0, and it stays 0 until the next item starts; every
\* item starts with retries = 0.
C9_SuccessResetsBackoffState ==
    /\ (success /\ fpc \in {"while", "afterWhile", "failures", "base", "periodic", "for"}) =>
          consecutiveFails = 0
    /\ (fpc = "while" /\ itemErrs = <<>> /\ ~success) => retries = 0
    /\ (fpc \in {"while", "getCaseHTML"}) => retries = Len(itemErrs)

\* C9 witness: an item was fetched on a retry after earlier items were skipped.
C9_Witness ==
    /\ fpc = "while"
    /\ success
    /\ Len(itemErrs) >= 1
    /\ skipRun >= 2
    /\ consecutiveFails = 0

\* the multiples of 30 among 1..n
C10_Thirtieths(n) == Cardinality({k \in 1..n : k % 30 = 0})

\* C10: every item but the last is followed by one 800 ms wait (N - 1 in the
\* whole loop), and every 30th item that is not the last by one 15000 ms wait
\* more, whether the items were read or skipped.
C10_BaseDelayAndPeriodicCooldown ==
    /\ (fpc \in {"for", "fetch_done"} /\ i >= 1) =>
          /\ WaitsOf("base") = IF i < N THEN <<Wait("base", 800)>> ELSE <<>>
          /\ WaitsOf("periodic") = IF i % 30 = 0 /\ i < N
                                    THEN <<Wait("periodic", 15000)>> ELSE <<>>
          /\ nBase = IF i < N THEN i ELSE N - 1
          /\ nPeriodic = C10_Thirtieths(IF i < N THEN i ELSE N - 1)
    /\ fpc = "fetch_done" =>
          /\ i = N
          /\ nBase = N - 1
          /\ nPeriodic = (N - 1) \div 30

\* C10 witness: a run of 31 items, some read and some skipped, is over and
\* took the periodic cooldown once.
C10_Witness ==
    /\ fpc = "fetch_done"
    /\ N = 31
    /\ nBase = 30
    /\ nPeriodic = 1
    /\ nCaseTexts > 0
    /\ skippedCount > 0

----------------------------------------------------------------------------
(* Claims about batches of calls (specification AuthSpec) *)

\* C14: within one sequential batch of authenticatedRequest calls, once a
\* call has run a successful forceRefresh, the operation is never again
\* handed the pre-refresh session: the retry of that call is handed the
\* session the refresh obtained (the newest token issued, which is also what
\* the session file holds), and every later call of the batch hands its
\* operation a session whose token is the refreshed one or a newer one.
C14_LaterCallsPassRefreshedSession ==
    /\ (op = "authenticatedRequest" /\ pc = "fn2")
          => /\ session.kind = "session"
             /\ session.tok = nextTok - 1
             /\ session = sessionFile
    /\ (op = "authenticatedRequest" /\ pc \in {"fn1", "fn2"} /\ refreshedTok > 0)
          => /\ session.kind = "session"
             /\ session.tok >= refreshedTok

\* a later call of the batch is about to hand the refreshed session to its
\* operation
C14_Witness ==
    /\ op = "authenticatedRequest"
    /\ pc = "fn1"
    /\ refreshedTok > 0
    /\ session.tok = refreshedTok

----------------------------------------------------------------------------
(* Claims about overlapping requests (specification ServerSpec) *)

\* the request whose locals are r is inside login() or forceRefresh()
C15_Refreshing(r) ==
    /\ r.op = "authenticatedRequest"
    /\ r.pc \in {"forceRefresh", "login", "getClientIp", "post", "writeFile"}

\* C15: in every reachable state, overlapping requests included, at most one
\* login / forceRefresh is in progress, so the shared session is never
\* mutated by two requests at once.
C15_AtMostOneLoginInProgress ==
    ~(/\ C15_Refreshing([pc |-> pc, op |-> op])
      /\ C15_Refreshing(parked))

----------------------------------------------------------------------------
(* Claims about summarizeAll (specification SummarizeSpec) *)

\* C19: summarizeAll is idempotent over a cached set. A call that finds an
\* entry in the cache file for every case returns without a summarizeCase
\* call and without a saveSummaries call, returns exactly the loaded cache,
\* and leaves the file as it was; and a call on the same cases right after a
\* call that returned with every summarization fulfilled makes no
\* summarizeCase call and no write.
C19_SummarizeAllIdempotentOnCache ==
    /\ (/\ spc \in {"allSettled", "saveSummaries", "returned", "thrown"}
        /\ loadedFile.readable
        /\ Range(sumCases) \subseteq DOMAIN loadedFile.entries)
          => /\ spc = "returned"
             /\ sumCalls = 0
             /\ sumWrites = 0
             /\ sumResult = [kind |-> "return", value |-> loadedFile.entries]
             /\ summariesFile = loadedFile
    /\ (sumRun >= 2 /\ prevClean /\ spc # "load")
          => /\ spc = "returned"
             /\ sumCalls = 0
             /\ sumWrites = 0
             /\ sumResult.kind = "return"

\* a second call, after a call that summarized and saved two batches without
\* a failure, has returned
C19_Witness ==
    /\ sumRun = 2
    /\ prevClean
    /\ spc = "returned"
    /\ Len(sumCases) > BATCH_SIZE
    /\ \E x \in Range(sumCases) : sumResult.value[x] = 1

----------------------------------------------------------------------------
(* Claims about the analyze run (specification AnalyzeSpec) *)

\* the steps of the messages written so far, in order
Steps == [k \in 1..Len(sent) |-> sent[k].step]

\* the last message written
LastSent == sent[Len(sent)]

\* the fetch loop is over and every item of a non-empty work list was skipped
C11_AllSkipped ==
    /\ fpc = "fetch_done"
    /\ N >= 1
    /\ nCaseTexts = 0

\* C11: a run whose work list consists entirely of failing items does not
\* end in an error because of them. Every item is skipped, the skipped count
\* is the (nonzero) size of the work list and fetch_done reports it, the
\* handler goes on to summarizeAll (which has nothing to do and returns) and
\* to the ranking, and when the ranking call returns the last message is
\* 'done'; the only 'error' such a run can end with is a throw of the
\* ranking call itself.
C11_AllSkippedRunEndsNormally ==
    C11_AllSkipped =>
        /\ skippedCount = N
        /\ caseTexts = <<>>
        /\ apc # "fetch" => Sent("fetch_done", N) \in Range(sent)
        /\ spc \in {"returned", "thrown"} => (spc = "returned" /\ sumCalls = 0 /\ sumWrites = 0)
        /\ apc = "ended" =>
              /\ SelectSeq(Steps, LAMBDA x : x \in {"fetch_done", "summarize",
                                                     "summarize_done", "rank"})
                    = <<"fetch_done", "summarize", "summarize_done", "rank">>
              /\ rankResult # "none"
              /\ rankResult = "returned" => LastSent = Sent("done", 0)
              /\ LastSent.step = "error" => rankResult = "thrown"

\* a work list of two or more items, all skipped, and the run ended with 'done'
C11_Witness ==
    /\ C11_AllSkipped
    /\ N >= 2
    /\ skippedCount = N
    /\ apc = "ended"
    /\ LastSent = Sent("done", 0)

\* C12: a run whose search produced no case ends at once: as soon as the
\* empty work list is announced the handler has ended, with no per-item
\* fetch, no delay or cooldown, no summarizeAll call and no ranking call, and
\* zero items processed.
C12_EmptyWorkListEndsAtOnce ==
    Sent("search_done", 0) \in Range(sent) =>
        /\ apc = "ended"
        /\ LastSent.step = "error"
        /\ cases = <<>>
        /\ fpc = "off"
        /\ i = 0
        /\ itemErrs = <<>>
        /\ nCaseTexts = 0
        /\ itemWaits = <<>>
        /\ nBase = 0 /\ nPeriodic = 0 /\ nFailCool = 0
        /\ spc = "off"
        /\ sumRun = 0
        /\ sumCalls = 0
        /\ rankResult = "none"
        /\ \A k \in 1..Len(sent) : sent[k].step \notin {"fetch", "summarize", "rank", "done"}

\* the filtered search and the search without filters both came back empty
C12_Witness ==
    /\ apc = "ended"
    /\ hasFilters
    /\ Sent("search_done", 0) \in Range(sent)
    /\ Len(sent) = 4

\* C17: a failed write of the summaries cache is not fatal to the run: the
\* handler still goes on to the ranking and, when that returns, ends with
\* 'done'.
C17_CacheWriteFailureNotFatal ==
    (apc = "ended" /\ spc = "thrown") =>
        /\ rankResult # "none"
        /\ rankResult = "returned" => LastSent.step = "done"

\* the number a message of the given step reported
Reported(step) == (CHOOSE m \in Range(sent) : m.step = step).n

\* C18: no per-item failure is dropped silently: when the run ends with
\* 'done', the items analyzed plus the items reported as failed or skipped
\* in the run's messages add up to the size of the work list.
C18_EveryFailureIsReported ==
    (apc = "ended" /\ LastSent.step = "done") =>
        Reported("done") + Reported("fetch_done") = N

\* the trimmed list: cases.slice(0, count) of what the search handed back
C20_Trimmed == slice(found, 0, count)

\* position of the first occurrence of x in seq
C20_First(seq, x) == CHOOSE k \in 1..Len(seq) :
                        seq[k] = x /\ \A m \in 1..(k - 1) : seq[m] # x

\* C20: after trimming and deduplication the work list has no two entries
\* with the same id, holds exactly the ids of the trimmed list (one entry
\* for each, a repeated id included), in the order of their first occurrence.
C20_WorkListHasUniqueIds ==
    apc = "search_done" =>
        /\ \A a, b \in 1..Len(cases) : a # b => cases[a] # cases[b]
        /\ Range(cases) = Range(C20_Trimmed)
        /\ \A x \in Range(C20_Trimmed) : Cardinality({k \in 1..Len(cases) : cases[k] = x}) = 1
        /\ \A a, b \in 1..Len(cases) :
              a < b => C20_First(C20_Trimmed, cases[a]) < C20_First(C20_Trimmed, cases[b])

\* an id came back twice with another id in between, and one entry was dropped
C20_Witness ==
    /\ apc = "search_done"
    /\ Len(C20_Trimmed) >= 3
    /\ C20_Trimmed[1] = C20_Trimmed[3]
    /\ C20_Trimmed[1] # C20_Trimmed[2]
    /\ Len(cases) = 2

----------------------------------------------------------------------------
(* Claims about the analyze run over auth.js (specification BatchSpec) *)

\* the getCaseHTML call that just ended failed with an authorization-class
\* status on the retry that followed forceRefresh
C16_SurvivedRefresh ==
    /\ op = "authenticatedRequest"
    /\ pc = "done"
    /\ outcome.kind = "throw"
    /\ outcome.err.origin = "fn2"
    /\ IsAuthStatus(outcome.err.status)
    /\ \E k \in 1..Len(trace) : trace[k] = Ev("forceRefresh", 0)

\* C16: an authentication failure that survives one refresh escalates to
\* the caller of the whole batch: once the handler has taken such a failure
\* of a getCaseHTML call, the run has ended with an 'error' message; the
\* item is not counted as skipped and the loop does not go on.
C16_AuthFailureEndsTheRun ==
    (apc # "off" /\ fpc # "awaiting" /\ C16_SurvivedRefresh) =>
        /\ apc = "ended"
        /\ LastSent.step = "error"

----------------------------------------------------------------------------
(* Claims about the fetch loop as a whole (specification FetchLiveSpec) *)

\* getCaseHTML calls made for cases[i] so far
C13_Attempts == Len(itemErrs) + (IF success THEN 1 ELSE 0)

\* C13: for every work list and every pattern of fetch successes and
\* failures the fetch loop terminates, having visited every item exactly
\* once and in order: the index only ever moves from one item to the next,
\* an item is entered only from the loop head and left only by the step to
\* the next index, the loop ends only when the index has reached the end of
\* the list, and no item gets more than MAX_RETRIES = 3 getCaseHTML calls
\* (so at most 3 * N in all).
C13_FetchLoopTerminates ==
    /\ <>(fpc = "fetch_done")
    /\ [](C13_Attempts <= MAX_RETRIES)
    /\ [](fpc = "fetch_done" => (i = N /\ nCaseTexts + skippedCount = N))
    /\ [](i <= N)
    /\ [][i' = i \/ (i' = i + 1 /\ fpc = "periodic")]_vars
    /\ [][(fpc # "for" /\ fpc' = "for") => (fpc = "periodic" /\ i' = i + 1)]_vars
    /\ [][(fpc # "while" /\ fpc' = "while")
            => (fpc = "for" /\ C13_Attempts' = 0) \/ fpc = "getCaseHTML"]_vars

\* the loop is over for a list of three or more items, of which at least one
\* was skipped and at least one read, the last one at its first attempt
C13_Witness ==
    /\ fpc = "fetch_done"
    /\ N >= 3
    /\ i = N
    /\ Len(itemErrs) = 0
    /\ success
    /\ skippedCount >= 1
    /\ nCaseTexts >= 1

----------------------------------------------------------------------------
(* Claims about the end of the fetch loop (specification FetchSpec) *)

\* C28: after the last item of the work list has been attempted no wait is
\* executed before 'fetch_done' is reported: the waits of the last item hold
\* neither the 800 ms delay, nor the 15 s periodic cooldown, nor the 30 s
\* failure cooldown.
C28_NoWaitAfterFinalItem ==
    (N >= 1 /\ ((i = N - 1 /\ fpc \in {"base", "periodic"})
                \/ (i = N /\ fpc \in {"for", "fetch_done"}))) =>
        /\ WaitsOf("base") = <<>>
        /\ WaitsOf("periodic") = <<>>
        /\ WaitsOf("failures") = <<>>

----------------------------------------------------------------------------
(* Claims about the messages of an analyze run (specification AnalyzeSpec) *)

\* the message at position k is one of the two terminal messages
C26_Terminal(k) == Steps[k] \in {"done", "error"}

\* C26: every analyze run that passed input validation emits exactly one
\* terminal message, 'done' or 'error': a terminal message is the last
\* message and the response is closed with it, a closed response ends with
\* a terminal message, and 'done' comes only after 'search_done',
\* 'fetch_done' and 'summarize_done' were emitted in that order.
C26_ExactlyOneTerminalMessage ==
    /\ \A k \in 1..Len(sent) : C26_Terminal(k) => (k = Len(sent) /\ apc = "ended")
    /\ apc = "ended" => (Len(sent) >= 1 /\ C26_Terminal(Len(sent)))
    /\ (Len(sent) >= 1 /\ LastSent.step = "done") =>
          \E a, b, c \in 1..Len(sent) :
              /\ a < b /\ b < c /\ c < Len(sent)
              /\ Steps[a] = "search_done"
              /\ Steps[b] = "fetch_done"
              /\ Steps[c] = "summarize_done"

\* C26 witness: a run that skipped a case and read another one has ended
\* with 'done' after the three phase messages
C26_Witness ==
    /\ apc = "ended"
    /\ LastSent.step = "done"
    /\ skippedCount >= 1
    /\ nCaseTexts >= 1
    /\ \E k \in 1..Len(sent) : Steps[k] = "summarize_done"

----------------------------------------------------------------------------
(* Claims about the batches of summarizeAll (specification SummarizeSpec) *)

\* C25: a summarizeAll call over U uncached cases makes exactly U
\* summarizeCase calls in ceil(U / 5) batches and writes the cache once per
\* batch; when the call is over every case whose summarization was fulfilled
\* has an entry in the cache file whatever happened to the others, a case
\* whose summarization failed has none, and the entries the file held when
\* the call loaded it are still there with their old values.
C25_BatchesOfFive ==
    (sumRun >= 1 /\ spc \in {"returned", "thrown"}) =>
        /\ sumCalls = Len(uncached)
        /\ sumWrites = (Len(uncached) + BATCH_SIZE - 1) \div BATCH_SIZE
        /\ Len(uncached) > 0 => summariesFile.readable
        /\ \A x \in Range(uncached) \ sumFailed : x \in DOMAIN summariesFile.entries
        /\ \A x \in sumFailed : x \notin DOMAIN summariesFile.entries
        /\ loadedFile.readable =>
              \A x \in DOMAIN loadedFile.entries :
                  /\ x \in DOMAIN summariesFile.entries
                  /\ summariesFile.entries[x] = loadedFile.entries[x]

----------------------------------------------------------------------------
(* Claims about the fetch loop over authenticatedRequest (specification BatchSpec) *)

----------------------------------------------------------------------------
(* Claims about the paginated search (specification SearchSpec) *)

\* the searchCases calls of pass q, in order
C21_PassLog(q) == SelectSeq(searchLog, LAMBDA e : e.pass = q)

\* a search pass makes at most ceil(count / 20) calls, makes no further call
\* once the accumulated results have reached the count or the reported
\* total, and the work list holds at most count entries
C21_Paging ==
    /\ \A q \in {1, 2} : Len(C21_PassLog(q)) <= totalPgs
    /\ \A k \in 1..Len(searchLog) :
          (searchLog[k].pass = pass /\ searchLog[k].page > 1) =>
              (searchLog[k].had < count /\ searchLog[k].had < avail)
    /\ apc = "search_done" => Len(cases) <= count

\* the running pass is over for count = 45, the remote has at least 45 cases
\* and answered every page in full
C21_FortyFiveFullPages ==
    /\ count = 45
    /\ avail >= 45
    /\ apc \in {"return", "trim", "search_done"}
    /\ \A k \in 1..Len(C21_PassLog(pass)) :
          C21_PassLog(pass)[k].got = Remaining(C21_PassLog(pass)[k].page)

\* the page sizes the calls of the running pass asked for
C21_Sizes == [k \in 1..Len(C21_PassLog(pass)) |-> C21_PassLog(pass)[k].pageSize]

C24_FilteredPassEmpty ==
    /\ (pass = 2 \/ apc \in {"return", "trim", "search_done"})
    /\ \A k \in 1..Len(C21_PassLog(1)) : C21_PassLog(1)[k].got = 0

\* C24: the search is made again without filters, once, exactly when the
\* filtered pass returned no case and a filter or the headnote-only toggle
\* was applied: a second pass is running or was run only in that case, in
\* that case the search does not end without it, and there is no third
\* pass.
C24_RetryWithoutFiltersOnce ==
    /\ pass \in {1, 2}
    /\ pass = 2 => (hasFilters /\ C24_FilteredPassEmpty)
    /\ (apc \in {"trim", "search_done"} /\ hasFilters /\ C24_FilteredPassEmpty) => pass = 2
    /\ Len(C21_PassLog(2)) <= totalPgs

\* C24 witness: the filtered pass found nothing, the pass without filters
\* found cases, and the work list is made of them
C24_Witness ==
    /\ apc = "search_done"
    /\ hasFilters
    /\ pass = 2
    /\ Len(C21_PassLog(1)) >= 1
    /\ Len(cases) >= 2

----------------------------------------------------------------------------
(* Claims about the downloads (specification DownloadSpec) *)

\* C22: a downloadCase call for a case whose PDF is already in the output
\* directory returns success with skipped = true, has made no network
\* request and has left the directory as it was, and downloadMultipleCases
\* awaits no rate-limit delay after it.
C22_ExistingPdfIsSkipped ==
    /\ \A k \in 1..Len(dlLog) :
          dlLog[k].existed =>
              /\ results[k].success
              /\ results[k].skipped
              /\ dlLog[k].reqs = 0
              /\ dlLog[k].dirSame
              /\ ~dlLog[k].delayed
    /\ (dpc = "result" /\ pdfFileName(dlCase) \in DOMAIN dlBefore) =>
          /\ dlResult = [success |-> TRUE, skipped |-> TRUE, id |-> dlCase]
          /\ dlReqs = 0
          /\ dir = dlBefore

\* C22 witness: the first case of three had its PDF and was skipped without
\* a delay, the second was downloaded and followed by the delay
C22_Witness ==
    /\ Len(dlCases) = 3
    /\ Len(dlLog) = 2
    /\ dlLog[1].existed
    /\ results[1].skipped
    /\ ~dlLog[1].delayed
    /\ results[2].success
    /\ ~results[2].skipped
    /\ dlLog[2].delayed

\* C29: after a downloadCase call that returned success = false no PDF of
\* the case is in the output directory, and a later call for the same case
\* is not skipped.
C29_FailedDownloadLeavesNoPdf ==
    /\ \A k \in 1..Len(dlLog) : ~results[k].success => dlLog[k].pdfAfter = <<>>
    /\ \A k, m \in 1..Len(dlLog) :
          (k < m /\ dlLog[k].id = dlLog[m].id /\ ~results[k].success) => ~results[m].skipped

----------------------------------------------------------------------------
(* Claims about the chat endpoint and the module state (specification ChatSpec) *)

\* C23: as long as no analyze run has assigned cachedSummaries the chat
\* history is empty and no language-model call has been made; a chat
\* message that arrives then is answered 'Run analysis first' without a
\* call and without a push; a chat message is handed to the model, and
\* answered, only after an analyze run has got past its summarize step.
C23_ChatRequiresAnalysis ==
    /\ cachedSummaries.null => (chatHistory = <<>> /\ llmCalls = 0 /\ summariesRun = 0)
    /\ \A c \in 1..MaxChats :
          /\ (chatLog[c].message /\ chatLog[c].sawNull) =>
                /\ chatLog[c].answer = "Run analysis first"
                /\ ~chatLog[c].called
                /\ ~chatLog[c].pushed
          /\ (chatLog[c].called \/ chatLog[c].answer = "chat") =>
                /\ summariesRun # 0
                /\ runPc[summariesRun] \in {"rankByRelevance", "ended"}

\* C23 witness: one chat message came while the first analyze run was
\* fetching and was refused, another came after the summaries and was
\* answered
C23_Witness ==
    /\ chatLog[1].answer = "Run analysis first"
    /\ chatLog[2].answer = "chat"
    /\ runPc[1] = "ended"
    /\ Len(chatHistory) = 4

\* no analyze run is between its request and its end
C30_NoRunInProgress == \A r \in 1..MaxAnalyzeRuns : runPc[r] \in {"idle", "ended"}

\* C30: whenever no analyze run is in progress the stored summaries and the
\* stored chat history come from the same analyze run (or from none), and
\* the chat history is always made of user/assistant pairs, in alternating
\* order.
C30_SummariesAndHistoryOfOneRun ==
    /\ C30_NoRunInProgress =>
          IF summariesRun = 0
          THEN chatHistory = <<>>
          ELSE /\ Len(chatHistory) >= 2
               /\ chatHistory[1] = Turn("user", "analysis", summariesRun)
    /\ Len(chatHistory) % 2 = 0
    /\ \A k \in 1..Len(chatHistory) :
          chatHistory[k].role = (IF k % 2 = 1 THEN "user" ELSE "assistant")

====
